---- MODULE Spec2Model ----
(***************************************************************************)
(* Conversation history store, curator and compression engine of the      *)
(* OpenAI-compatible generator (packages/core/src/core/                    *)
(* conversationManager.ts).                                                *)
(*                                                                         *)
(* A Content (turn) is a record [role, parts]; a Part (fragment) is a      *)
(* record [k, text] where k names the only keys the part carries:          *)
(*   "text"    {text: t}                 "thought" {text: t, thought: true}*)
(*   "empty"   {}                        "call"    {functionCall: ...}     *)
(*   "resp"    {functionResponse: ...}                                     *)
(* Text is a sequence of one-character strings, so that concatenation,     *)
(* trimming and serialized length are computed, not assumed.               *)
(* Fractions (threshold, preserveThreshold) are carried in tenths and      *)
(* compared by exact cross-multiplication.                                 *)
(***************************************************************************)
EXTENDS Integers, Sequences, FiniteSets, TLC

VARIABLES history, tc, thrown, hung, fac, dec, io

\* the conversation manager's state
mgrVars == <<history, tc, thrown, hung>>

\* the generator's state: a facade request in flight (fac), a streaming
\* decoder (dec), and the argument and result of a pure helper call (io)
genVars == <<fac, dec, io>>

vars == <<history, tc, thrown, hung, fac, dec, io>>

(***************************************************************************)
(* Bounds of the model                                                     *)
(***************************************************************************)
MaxHist == 3      \* appends are explored while History holds at most this many turns
MaxSet == 2       \* longest list handed to setHistory / the constructor
MaxOut == 2       \* longest modelOutput list handed to recordHistory

(***************************************************************************)
(* Program constants                                                       *)
(***************************************************************************)
COMPRESSION_TOKEN_THRESHOLD == 7      \* 0.7, in tenths
COMPRESSION_PRESERVE_THRESHOLD == 3   \* 0.3, in tenths
TokenLimit == 10                      \* tokenLimit(model), scaled

(***************************************************************************)
(* Parts and turns                                                         *)
(***************************************************************************)
Txt(t) == [k |-> "text", text |-> t]
Thought(t) == [k |-> "thought", text |-> t]
EmptyPart == [k |-> "empty", text |-> <<>>]
CallPart == [k |-> "call", text |-> <<>>]
RespPart == [k |-> "resp", text |-> <<>>]

Turn(r, ps) == [role |-> r, parts |-> ps]

\* typeof part.text === 'string'
HasText(p) == p.k \in {"text", "thought"}

U1 == Turn("user", <<Txt(<<"a">>)>>)
UR == Turn("user", <<RespPart>>)
MT == Turn("model", <<Txt(<<"b">>)>>)
MT2 == Turn("model", <<Txt(<<"c", "d">>)>>)
ME == Turn("model", <<Txt(<<>>)>>)
MZ == Turn("model", <<>>)
MC == Turn("model", <<CallPart>>)
MTh == Turn("model", <<Thought(<<>>)>>)
MO == Turn("model", <<EmptyPart>>)
XS == Turn("system", <<Txt(<<"a">>)>>)
NR == Turn("undefined", <<Txt(<<"b">>)>>)

RECURSIVE SeqsUpTo(_, _)
SeqsUpTo(S, n) ==
  IF n = 0 THEN {<<>>}
  ELSE LET prev == SeqsUpTo(S, n - 1)
       IN prev \cup {Append(s, x) : s \in {p \in prev : Len(p) = n - 1}, x \in S}

(***************************************************************************)
(* validateHistory, isValidContent, isTextContent, isThoughtContent        *)
(***************************************************************************)
validateHistory(h) == \A i \in 1..Len(h) : h[i].role = "user" \/ h[i].role = "model"

\* variant: the thought exemption of the empty-text test is forgotten
isValidPartNoThought(p) ==
  /\ p.k # "empty"
  /\ ~(HasText(p) /\ p.text = <<>>)

isValidPart(p) ==
  /\ p.k # "empty"
  /\ ~(p.k = "text" /\ p.text = <<>>)

isValidContent(c) ==
  /\ Len(c.parts) > 0
  /\ \A j \in 1..Len(c.parts) : isValidPart(c.parts[j])

isTextContent(c) ==
  /\ c.role = "model"
  /\ Len(c.parts) > 0
  /\ HasText(c.parts[1])
  /\ c.parts[1].text # <<>>

isThoughtContent(c) ==
  /\ c.role = "model"
  /\ Len(c.parts) > 0
  /\ c.parts[1].k = "thought"

\* utils/messageInspectors.js: a user turn all of whose parts are function responses
isFunctionResponse(c) ==
  /\ c.role = "user"
  /\ \A j \in 1..Len(c.parts) : c.parts[j].k = "resp"

(***************************************************************************)
(* extractCuratedHistory                                                   *)
(***************************************************************************)
\* The outer loop makes no progress at a turn that is neither user nor model:
\* the else branch consumes model turns only, so i never advances.
CurationLoops(h) == \E i \in 1..Len(h) : h[i].role # "user" /\ h[i].role # "model"

\* index one past the run of model turns that starts at i
RECURSIVE RunEnd(_, _)
RunEnd(h, i) == IF i <= Len(h) /\ h[i].role = "model" THEN RunEnd(h, i + 1) ELSE i

\* curatedHistory.pop()
Pop(s) == IF Len(s) = 0 THEN s ELSE SubSeq(s, 1, Len(s) - 1)

\* variant: the pop is not in an else branch, it follows every model run
RECURSIVE CurateFromPopAlways(_, _, _)
CurateFromPopAlways(h, i, cur) ==
  IF i > Len(h) THEN cur
  ELSE IF h[i].role = "user" THEN CurateFromPopAlways(h, i + 1, Append(cur, h[i]))
  ELSE LET e == RunEnd(h, i)
           modelOutput == SubSeq(h, i, e - 1)
           isValid == \A j \in i..(e - 1) : isValidContent(h[j])
       IN IF e = i THEN cur
          ELSE IF isValid THEN CurateFromPopAlways(h, e, Pop(cur \o modelOutput))
          ELSE CurateFromPopAlways(h, e, Pop(cur))

RECURSIVE CurateFrom(_, _, _)
CurateFrom(h, i, cur) ==
  IF i > Len(h) THEN cur
  ELSE IF h[i].role = "user" THEN CurateFrom(h, i + 1, Append(cur, h[i]))
  ELSE LET e == RunEnd(h, i)
           modelOutput == SubSeq(h, i, e - 1)
           isValid == \A j \in i..(e - 1) : isValidContent(h[j])
       IN IF e = i THEN cur    \* unreachable when ~CurationLoops(h)
          ELSE IF isValid THEN CurateFrom(h, e, cur \o modelOutput)
          ELSE CurateFrom(h, e, Pop(cur))

extractCuratedHistory(h) == CurateFrom(h, 1, <<>>)

(***************************************************************************)
(* findIndexAfterFraction                                                  *)
(***************************************************************************)
\* f[lo] + ... + f[hi], by halves so that a long text needs no deep recursion
RECURSIVE SumRange(_, _, _)
SumRange(f, lo, hi) ==
  IF lo > hi THEN 0
  ELSE IF lo = hi THEN f[lo]
  ELSE LET mid == (lo + hi) \div 2
       IN SumRange(f, lo, mid) + SumRange(f, mid + 1, hi)

SumLen(f, n) == SumRange(f, 1, n)

\* JSON.stringify escapes a line feed as two characters
JsonCharLen(ch) == IF ch = "\n" THEN 2 ELSE 1

JsonTextLen(t) == SumLen([j \in 1..Len(t) |-> JsonCharLen(t[j])], Len(t))

\* length of JSON.stringify(part)
JsonPartLen(p) ==
  CASE p.k = "text" -> 11 + JsonTextLen(p.text)
    [] p.k = "thought" -> 26 + JsonTextLen(p.text)
    [] p.k = "empty" -> 2
    [] p.k = "call" -> 39
    [] p.k = "resp" -> 47

\* length of JSON.stringify(content): {"role":"..","parts":[..,..]}
JsonLen(c) ==
  LET n == Len(c.parts)
      roleLen == CASE c.role = "user" -> 4
                   [] c.role = "model" -> 5
                   [] c.role = "system" -> 6
                   [] OTHER -> 0
      head == IF c.role = "undefined" THEN 12 ELSE 22 + roleLen
  IN head + SumLen([j \in 1..n |-> JsonPartLen(c.parts[j])], n)
          + (IF n > 1 THEN n - 1 ELSE 0)

FractionError == -1

\* variant: the index after the turn that reaches targetCharacters
RECURSIVE FirstReachingAfter(_, _, _, _, _)
FirstReachingAfter(lens, i, soFar, total, fraction) ==
  IF i >= Len(lens) THEN Len(lens)
  ELSE IF (soFar + lens[i + 1]) * 10 >= total * fraction THEN i + 1
  ELSE FirstReachingAfter(lens, i + 1, soFar + lens[i + 1], total, fraction)

\* variant: the comparison with targetCharacters is strict
RECURSIVE FirstReachingStrict(_, _, _, _, _)
FirstReachingStrict(lens, i, soFar, total, fraction) ==
  IF i >= Len(lens) THEN Len(lens)
  ELSE IF (soFar + lens[i + 1]) * 10 > total * fraction THEN i
  ELSE FirstReachingStrict(lens, i + 1, soFar + lens[i + 1], total, fraction)

\* first 0-based index i with charactersSoFar >= targetCharacters, from i on
RECURSIVE FirstReaching(_, _, _, _, _)
FirstReaching(lens, i, soFar, total, fraction) ==
  IF i >= Len(lens) THEN Len(lens)
  ELSE IF (soFar + lens[i + 1]) * 10 >= total * fraction THEN i
  ELSE FirstReaching(lens, i + 1, soFar + lens[i + 1], total, fraction)

\* fraction in tenths; FractionError stands for the thrown Error
findIndexAfterFraction(h, fraction) ==
  IF fraction <= 0 \/ fraction >= 10 THEN FractionError
  ELSE LET contentLengths == [i \in 1..Len(h) |-> JsonLen(h[i])]
           totalCharacters == SumLen(contentLengths, Len(h))
       IN FirstReaching(contentLengths, 0, 0, totalCharacters, fraction)

\* variant: the loop skips model turns only
RECURSIVE AdvanceToUserModelOnly(_, _)
AdvanceToUserModelOnly(cur, i) ==
  IF i < Len(cur) /\ cur[i + 1].role = "model"
  THEN AdvanceToUserModelOnly(cur, i + 1)
  ELSE i

\* the while loop of tryCompress: skip model turns and function responses
RECURSIVE AdvanceToUser(_, _)
AdvanceToUser(cur, i) ==
  IF i < Len(cur) /\ (cur[i + 1].role = "model" \/ isFunctionResponse(cur[i + 1]))
  THEN AdvanceToUser(cur, i + 1)
  ELSE i

(***************************************************************************)
(* generateCompressionSummary: text extraction                             *)
(***************************************************************************)
IsSpace(ch) == ch = " " \/ ch = "\n"

RECURSIVE TrimLeft(_)
TrimLeft(t) == IF Len(t) > 0 /\ IsSpace(t[1]) THEN TrimLeft(Tail(t)) ELSE t

RECURSIVE TrimRight(_)
TrimRight(t) ==
  IF Len(t) > 0 /\ IsSpace(t[Len(t)]) THEN TrimRight(SubSeq(t, 1, Len(t) - 1)) ELSE t

Trim(t) == TrimRight(TrimLeft(t))

\* parts.filter('text' in part).map(text).join('\n')
RECURSIVE JoinTexts(_)
JoinTexts(ps) ==
  LET withText == SelectSeq(ps, HasText)
  IN IF Len(withText) = 0 THEN <<>>
     ELSE IF Len(withText) = 1 THEN withText[1].text
     ELSE withText[1].text \o <<"\n">> \o JoinTexts(Tail(withText))

AckText == <<"G", "o", "t">>   \* 'Got it. Thanks for the additional context!'

SummaryTurn(summary) == Turn("user", <<Txt(summary)>>)
AckTurn == Turn("model", <<Txt(AckText)>>)

\* variant: the slice starts one turn late
historyToKeepLate(curatedHistory, compressBeforeIndex) ==
  SubSeq(curatedHistory, compressBeforeIndex + 2, Len(curatedHistory))

\* curatedHistory.slice(compressBeforeIndex)
historyToKeep(curatedHistory, compressBeforeIndex) ==
  SubSeq(curatedHistory, compressBeforeIndex + 1, Len(curatedHistory))

\* variant: a count equal to the limit is still taken to be under it
UnderLimitInclusive(force, tokenCount, threshold) ==
  ~force /\ tokenCount * 10 <= threshold * TokenLimit

\* !force && originalTokenCount < threshold * tokenLimit(model)
UnderLimit(force, tokenCount, threshold) ==
  ~force /\ tokenCount * 10 < threshold * TokenLimit

\* the array literal assigned to this.history after the summary is obtained
CompressedHistory(summary, kept) ==
  <<SummaryTurn(summary), AckTurn>> \o kept

(***************************************************************************)
(* recordHistory                                                           *)
(***************************************************************************)
\* variant: the text is put in front of the text collected so far
MergeTextPrepend(last, c) ==
  LET first == [last.parts[1] EXCEPT !.text = c.parts[1].text \o @]
  IN [last EXCEPT !.parts = <<first>> \o Tail(last.parts) \o Tail(c.parts)]

\* lastContent.parts[0].text += content.parts[0].text || '' ; push(...slice(1))
MergeText(last, c) ==
  LET first == [last.parts[1] EXCEPT !.text = @ \o c.parts[1].text]
  IN [last EXCEPT !.parts = <<first>> \o Tail(last.parts) \o Tail(c.parts)]

RECURSIVE Consolidate(_, _)
Consolidate(outs, acc) ==
  IF Len(outs) = 0 THEN acc
  ELSE LET content == Head(outs)
       IN IF isThoughtContent(content) THEN Consolidate(Tail(outs), acc)
          ELSE IF Len(acc) > 0 /\ isTextContent(acc[Len(acc)]) /\ isTextContent(content)
          THEN Consolidate(Tail(outs),
                           [acc EXCEPT ![Len(acc)] = MergeText(@, content)])
          ELSE Consolidate(Tail(outs), Append(acc, content))

\* variant: no branch for an output that holds thoughts only
OutputContentsEmptyTurn(userInput, modelOutput) ==
  LET nonThoughtModelOutput == SelectSeq(modelOutput, LAMBDA c : ~isThoughtContent(c))
  IN IF /\ Len(nonThoughtModelOutput) > 0
        /\ \A j \in 1..Len(nonThoughtModelOutput) :
              nonThoughtModelOutput[j].role # "undefined"
     THEN nonThoughtModelOutput
     ELSE IF ~isFunctionResponse(userInput) THEN <<MZ>>
     ELSE <<>>

\* variant: the empty model turn is inserted after a function response too
OutputContentsAfterResponse(userInput, modelOutput) ==
  LET nonThoughtModelOutput == SelectSeq(modelOutput, LAMBDA c : ~isThoughtContent(c))
  IN IF /\ Len(nonThoughtModelOutput) > 0
        /\ \A j \in 1..Len(nonThoughtModelOutput) :
              nonThoughtModelOutput[j].role # "undefined"
     THEN nonThoughtModelOutput
     ELSE IF Len(nonThoughtModelOutput) = 0 /\ Len(modelOutput) > 0 THEN <<>>
     ELSE <<MZ>>

\* nonThoughtModelOutput and the three branches that choose outputContents
OutputContents(userInput, modelOutput) ==
  LET nonThoughtModelOutput == SelectSeq(modelOutput, LAMBDA c : ~isThoughtContent(c))
  IN IF /\ Len(nonThoughtModelOutput) > 0
        /\ \A j \in 1..Len(nonThoughtModelOutput) :
              nonThoughtModelOutput[j].role # "undefined"
     THEN nonThoughtModelOutput
     ELSE IF Len(nonThoughtModelOutput) = 0 /\ Len(modelOutput) > 0 THEN <<>>
     ELSE IF ~isFunctionResponse(userInput) THEN <<MZ>>
     ELSE <<>>

\* variant: the first output is merged into the last entry of History also
\* when an external history was supplied
RecordedHistoryMergeAlways(h, userInput, modelOutput, afc) ==
  LET pushed == IF Len(afc) > 0 THEN h \o extractCuratedHistory(afc)
                ELSE Append(h, userInput)
      consolidated == Consolidate(OutputContents(userInput, modelOutput), <<>>)
  IN IF Len(consolidated) = 0 THEN pushed
     ELSE IF /\ Len(pushed) > 0
             /\ isTextContent(pushed[Len(pushed)])
             /\ isTextContent(consolidated[1])
     THEN [pushed EXCEPT ![Len(pushed)] = MergeText(@, consolidated[1])]
            \o Tail(consolidated)
     ELSE pushed \o consolidated

\* History after recordHistory(userInput, modelOutput, afc); afc = <<>> when absent
RecordedHistory(h, userInput, modelOutput, afc) ==
  LET pushed == IF Len(afc) > 0 THEN h \o extractCuratedHistory(afc)
                ELSE Append(h, userInput)
      consolidated == Consolidate(OutputContents(userInput, modelOutput), <<>>)
      canMergeWithLastHistory == Len(afc) = 0
  IN IF Len(consolidated) = 0 THEN pushed
     ELSE IF /\ canMergeWithLastHistory
             /\ Len(pushed) > 0
             /\ isTextContent(pushed[Len(pushed)])
             /\ isTextContent(consolidated[1])
     THEN [pushed EXCEPT ![Len(pushed)] = MergeText(@, consolidated[1])]
            \o Tail(consolidated)
     ELSE pushed \o consolidated

(***************************************************************************)
(* Inputs                                                                  *)
(***************************************************************************)
\* turns a caller can hand to addHistory
TurnPool == {U1, UR, MT, ME, XS}

\* lists handed to setHistory and the constructor: validateHistory reads
\* nothing but the roles, so one turn per role class is drawn
SetTurns == {U1, MT, XS}

SetPool == SeqsUpTo(SetTurns, MaxSet)

\* userInput of recordHistory
UserInputs == {U1, UR, MT, XS}

\* modelOutput of recordHistory
TextRun(n) == [i \in 1..n |-> IF i % 2 = 1 THEN MT ELSE MT2]

OutPool ==
  { <<>>, <<MC>>, <<MT, MC>>, <<MTh>>, <<MTh, MT>>, <<NR>> }
   \cup {TextRun(n) : n \in 1..MaxOut}

\* automaticFunctionCallingHistory of recordHistory; <<>> when not supplied
AfcPool == {<<>>, <<ME, U1, MC>>}

\* CompressionOptions after defaulting: the defaults, force alone (as
\* tryCompressConversation passes it), and custom fractions as the command
\* surface passes them unchecked
Options(f, th, p) == [force |-> f, threshold |-> th, preserveThreshold |-> p]

OptionPool ==
  { Options(FALSE, COMPRESSION_TOKEN_THRESHOLD, COMPRESSION_PRESERVE_THRESHOLD),
    Options(TRUE, COMPRESSION_TOKEN_THRESHOLD, COMPRESSION_PRESERVE_THRESHOLD),
    Options(FALSE, 5, 5),
    Options(TRUE, COMPRESSION_TOKEN_THRESHOLD, 10) }

UndefinedCount == -1
CountPool == {UndefinedCount, 5, 7}

\* outcomes of contentGenerator.generateContent: rejection, a response without
\* candidate content, or a candidate with parts
GenPool ==
  { [kind |-> "reject", parts |-> <<>>],
    [kind |-> "nocandidate", parts |-> <<>>],
    [kind |-> "ok", parts |-> <<Txt(<<" ", "s">>), CallPart, Txt(<<"t", " ">>)>>] }

(***************************************************************************)
(* State                                                                   *)
(***************************************************************************)
\* locals of the tryCompress call in progress; before/gen/res/err record what
\* the call was given and what it did
\* no facade request, no decoder and no helper call in progress
IdleFac == [pc |-> "idle"]
IdleDec == [pc |-> "idle"]
IdleIo == [op |-> "none"]

IdleTc ==
  [pc |-> "idle", force |-> FALSE, thr |-> 0, pres |-> 0, cur |-> <<>>,
   before |-> <<>>, orig |-> UndefinedCount, fraction |-> 0, cut |-> 0,
   gen |-> 0, replaced |-> FALSE, res |-> "none", err |-> "none"]

\* new ConversationManager(config, generator, {}, initialHistory): the object
\* exists only if validateHistory(initialHistory) did not throw
Init ==
  /\ \E initialHistory \in SetPool :
        /\ validateHistory(initialHistory)
        /\ history = initialHistory
  /\ tc = IdleTc
  /\ thrown = "none"
  /\ hung = FALSE
  /\ fac = IdleFac
  /\ dec = IdleDec
  /\ io = IdleIo

Ready == ~hung /\ tc.pc = "idle"

(***************************************************************************)
(* Synchronous operations                                                  *)
(***************************************************************************)
\* variant: the assignment precedes the validation
setHistoryAssignFirst(h) ==
  /\ Ready
  /\ history' = h
  /\ thrown' = IF validateHistory(h) THEN "none" ELSE "Role must be user or model"
  /\ UNCHANGED <<tc, hung>>
  /\ UNCHANGED genVars

setHistory(h) ==
  /\ Ready
  /\ IF validateHistory(h)
     THEN /\ history' = h
          /\ thrown' = "none"
     ELSE /\ history' = history
          /\ thrown' = "Role must be user or model"
  /\ UNCHANGED <<tc, hung>>
  /\ UNCHANGED genVars

addHistory(content) ==
  /\ Ready
  /\ Len(history) < MaxHist
  /\ history' = Append(history, content)
  /\ thrown' = "none"
  /\ UNCHANGED <<tc, hung>>
  /\ UNCHANGED genVars

clearHistory ==
  /\ Ready
  /\ history' = <<>>
  /\ thrown' = "none"
  /\ UNCHANGED <<tc, hung>>
  /\ UNCHANGED genVars

recordHistory(userInput, modelOutput, afc) ==
  /\ Ready
  /\ thrown' = "none"
  /\ UNCHANGED genVars
  /\ IF CurationLoops(afc)
     THEN /\ hung' = TRUE
          /\ UNCHANGED <<history, tc>>
     ELSE /\ Len(RecordedHistory(history, userInput, modelOutput, afc)) <= MaxHist
          /\ history' = RecordedHistory(history, userInput, modelOutput, afc)
          /\ UNCHANGED <<tc, hung>>

(***************************************************************************)
(* tryCompress, one action per segment between awaits                      *)
(***************************************************************************)
Done(t, res, err) == [t EXCEPT !.pc = "done", !.res = res, !.err = err]

\* entry up to the first countTokens call
tryCompress(options) ==
  /\ Ready
  /\ thrown' = "none"
  /\ UNCHANGED genVars
  /\ IF CurationLoops(history)
     THEN /\ hung' = TRUE
          /\ UNCHANGED <<history, tc>>
     ELSE LET curatedHistory == extractCuratedHistory(history)
              t == [IdleTc EXCEPT !.force = options.force,
                                  !.thr = options.threshold,
                                  !.pres = options.preserveThreshold,
                                  !.cur = curatedHistory, !.before = history]
          IN /\ tc' = IF Len(curatedHistory) = 0 THEN Done(t, "null", "none")
                      ELSE [t EXCEPT !.pc = "count"]
             /\ UNCHANGED <<history, hung>>

\* countTokens resolved: the threshold test, the cut index, the summary request
CountResolved(originalTokenCount) ==
  /\ ~hung
  /\ tc.pc = "count"
  /\ LET t == [tc EXCEPT !.orig = originalTokenCount]
         idx == findIndexAfterFraction(tc.cur, 10 - tc.pres)
         u == [t EXCEPT !.fraction = 10 - tc.pres]
     IN tc' = IF originalTokenCount = UndefinedCount THEN Done(t, "null", "none")
              ELSE IF UnderLimit(tc.force, originalTokenCount, tc.thr)
              THEN Done(t, "null", "none")
              ELSE IF idx = FractionError THEN Done(u, "error", "fraction")
              ELSE [u EXCEPT !.pc = "summary", !.cut = AdvanceToUser(tc.cur, idx),
                             !.gen = 1]
  /\ UNCHANGED <<history, thrown, hung>>
  /\ UNCHANGED genVars

\* variant: History is replaced before the summary request is awaited
SummaryResolvedEarly(response) ==
  /\ ~hung
  /\ tc.pc = "summary"
  /\ IF response.kind = "reject" THEN
       /\ tc' = Done(tc, "error", "generation")
       /\ history' = CompressedHistory(<<>>, historyToKeep(tc.cur, tc.cut))
     ELSE IF response.kind = "nocandidate" THEN
       /\ tc' = Done(tc, "error", "nosummary")
       /\ history' = CompressedHistory(<<>>, historyToKeep(tc.cur, tc.cut))
     ELSE
       /\ history' = CompressedHistory(Trim(JoinTexts(response.parts)),
                                       historyToKeep(tc.cur, tc.cut))
       /\ tc' = [tc EXCEPT !.pc = "recount", !.replaced = TRUE]
  /\ UNCHANGED <<thrown, hung>>
  /\ UNCHANGED genVars

\* variant: the turns appended to History since the call began are kept
\* behind the preserved tail
SummaryResolvedKeeping(response) ==
  /\ ~hung
  /\ tc.pc = "summary"
  /\ IF response.kind = "reject" THEN
       /\ tc' = Done(tc, "error", "generation")
       /\ UNCHANGED history
     ELSE IF response.kind = "nocandidate" THEN
       /\ tc' = Done(tc, "error", "nosummary")
       /\ UNCHANGED history
     ELSE
       /\ history' = CompressedHistory(Trim(JoinTexts(response.parts)),
                                       historyToKeep(tc.cur, tc.cut))
                       \o SubSeq(history, Len(tc.before) + 1, Len(history))
       /\ tc' = [tc EXCEPT !.pc = "recount", !.replaced = TRUE]
  /\ UNCHANGED <<thrown, hung>>
  /\ UNCHANGED genVars

\* generateContent settled: the summary text and the replacement of History
SummaryResolved(response) ==
  /\ ~hung
  /\ tc.pc = "summary"
  /\ IF response.kind = "reject" THEN
       /\ tc' = Done(tc, "error", "generation")
       /\ UNCHANGED history
     ELSE IF response.kind = "nocandidate" THEN
       /\ tc' = Done(tc, "error", "nosummary")
       /\ UNCHANGED history
     ELSE
       /\ history' = CompressedHistory(Trim(JoinTexts(response.parts)),
                                       historyToKeep(tc.cur, tc.cut))
       /\ tc' = [tc EXCEPT !.pc = "recount", !.replaced = TRUE]
  /\ UNCHANGED <<thrown, hung>>
  /\ UNCHANGED genVars

\* second countTokens resolved
RecountResolved(newTokenCount) ==
  /\ ~hung
  /\ tc.pc = "recount"
  /\ tc' = IF newTokenCount = UndefinedCount THEN Done(tc, "null", "none")
           ELSE Done(tc, "info", "none")
  /\ UNCHANGED <<history, thrown, hung>>
  /\ UNCHANGED genVars

\* the caller takes the result; the locals of the call are gone
TryCompressReturn ==
  /\ ~hung
  /\ tc.pc = "done"
  /\ tc' = IdleTc
  /\ UNCHANGED <<history, thrown, hung>>
  /\ UNCHANGED genVars

Next ==
  \/ \E h \in SetPool : setHistory(h)
  \/ \E c \in TurnPool : addHistory(c)
  \/ clearHistory
  \/ \E u \in UserInputs, m \in OutPool, a \in AfcPool : recordHistory(u, m, a)
  \/ \E o \in OptionPool : tryCompress(o)
  \/ \E n \in CountPool : CountResolved(n)
  \/ \E r \in GenPool : SummaryResolved(r)
  \/ \E n \in CountPool : RecountResolved(n)
  \/ TryCompressReturn

Spec == Init /\ [][Next]_vars

(***************************************************************************)
(* One call of tryCompress, and the calls another request makes on the     *)
(* same manager while that call is suspended at an await: io keeps the     *)
(* turns those calls appended.                                             *)
(***************************************************************************)
MaxDuring == 1
U2 == Turn("user", <<Txt(<<"c">>)>>)

ConcurrentInit ==
  /\ \E initialHistory \in SetPool :
        /\ validateHistory(initialHistory)
        /\ history = initialHistory
  /\ tc = IdleTc
  /\ thrown = "none"
  /\ hung = FALSE
  /\ fac = IdleFac
  /\ dec = IdleDec
  /\ io = [op |-> "concurrent", calls |-> 0, added |-> <<>>]

\* tryCompress awaits countTokens or generateCompressionSummary
Suspended == ~hung /\ tc.pc \in {"count", "summary"}

\* addHistory(content), called while tryCompress is suspended
addHistoryDuring(content) ==
  /\ Suspended
  /\ io.op = "concurrent"
  /\ io.calls < MaxDuring
  /\ history' = Append(history, content)
  /\ io' = [io EXCEPT !.calls = @ + 1, !.added = Append(@, content)]
  /\ UNCHANGED <<tc, thrown, hung, fac, dec>>

\* recordHistory(userInput, modelOutput), called while tryCompress is suspended
recordHistoryDuring(userInput, modelOutput) ==
  /\ Suspended
  /\ io.op = "concurrent"
  /\ io.calls < MaxDuring
  /\ history' = RecordedHistory(history, userInput, modelOutput, <<>>)
  /\ io' = [io EXCEPT !.calls = @ + 1,
                      !.added = @ \o SubSeq(history', Len(history) + 1, Len(history'))]
  /\ UNCHANGED <<tc, thrown, hung, fac, dec>>

ConcurrentNext ==
  \/ \E o \in OptionPool : tryCompress(o)
  \/ \E n \in CountPool : CountResolved(n)
  \/ \E r \in GenPool : SummaryResolved(r)
  \/ \E n \in CountPool : RecountResolved(n)
  \/ addHistoryDuring(U2)
  \/ \E m \in {<<MT2>>, <<MTh>>} : recordHistoryDuring(U2, m)

ConcurrentSpec == ConcurrentInit /\ [][ConcurrentNext]_vars

(***************************************************************************)
(* One call of addHistory or recordHistory on a manager that holds any     *)
(* History the operations above can build; io keeps the call's arguments   *)
(* and the History it found.                                               *)
(***************************************************************************)
\* Histories before the call
AppendHistories == SeqsUpTo({U1, UR, MT, MC}, MaxSet)

\* automaticFunctionCallingHistory: absent, curated to nothing, curated to
\* turns that end with a text, curated to turns that end with a call
AppendAfcs == AfcPool \cup {<<ME>>, <<U1, MT>>}

\* modelOutput: the lists of OutPool and lists of thoughts
MThT == Turn("model", <<Thought(<<"t">>)>>)
AppendOuts == OutPool \cup {<<MTh, MThT>>, <<MT, MTh, MT2>>, <<MThT, MC>>}

AppendInit ==
  /\ history \in AppendHistories
  /\ tc = IdleTc
  /\ thrown = "none"
  /\ hung = FALSE
  /\ fac = IdleFac
  /\ dec = IdleDec
  /\ io = IdleIo

AppendCall(op, userInput, modelOutput, afc) ==
  [op |-> op, before |-> history, userInput |-> userInput,
   modelOutput |-> modelOutput, afc |-> afc]

callAddHistory(content) ==
  /\ io.op = "none"
  /\ io' = AppendCall("addHistory", content, <<>>, <<>>)
  /\ history' = Append(history, content)
  /\ UNCHANGED <<tc, thrown, hung, fac, dec>>

callRecordHistory(userInput, modelOutput, afc) ==
  /\ io.op = "none"
  /\ io' = AppendCall("recordHistory", userInput, modelOutput, afc)
  /\ IF CurationLoops(afc)
     THEN hung' = TRUE /\ UNCHANGED history
     ELSE history' = RecordedHistory(history, userInput, modelOutput, afc) /\ UNCHANGED hung
  /\ UNCHANGED <<tc, thrown, fac, dec>>

AppendNext ==
  \/ \E c \in TurnPool : callAddHistory(c)
  \/ \E u \in UserInputs, m \in AppendOuts, a \in AppendAfcs : callRecordHistory(u, m, a)

AppendSpec == AppendInit /\ [][AppendNext]_vars

TypeOK ==
  /\ hung \in BOOLEAN
  /\ tc.pc \in {"idle", "count", "summary", "recount", "done"}
  /\ Len(history) <= MaxHist + 1

(***************************************************************************)
(* The pure functions on their own: every history up to MaxLen turns over  *)
(* all kinds of turn, curated or cut once                                  *)
(***************************************************************************)
MaxLen == 3

PureTurns == {U1, UR, MT, ME, MZ, MC, MTh, MO}
FractionPool == {-1, 0, 1, 3, 5, 7, 9, 10, 11}

PureInit ==
  /\ history \in SeqsUpTo(PureTurns, MaxLen)
  /\ tc = IdleTc
  /\ thrown = "none"
  /\ hung = FALSE
  /\ fac = IdleFac
  /\ dec = IdleDec
  /\ io = IdleIo

\* getHistory(true)
getCurated ==
  /\ tc.pc = "idle"
  /\ tc' = [IdleTc EXCEPT !.pc = "done", !.res = "curated", !.before = history,
                          !.cur = extractCuratedHistory(history)]
  /\ UNCHANGED <<history, thrown, hung>>
  /\ UNCHANGED genVars

\* setHistory(getHistory(true))
setCurated ==
  /\ tc.res = "curated"
  /\ history' = tc.cur
  /\ tc' = IdleTc
  /\ UNCHANGED <<thrown, hung>>
  /\ UNCHANGED genVars

callFindIndex(fraction) ==
  /\ tc.pc = "idle"
  /\ tc' = [IdleTc EXCEPT !.pc = "done", !.res = "index", !.before = history,
                          !.fraction = fraction,
                          !.cut = findIndexAfterFraction(history, fraction)]
  /\ UNCHANGED <<history, thrown, hung>>
  /\ UNCHANGED genVars

PureNext ==
  \/ getCurated
  \/ setCurated
  \/ \E f \in FractionPool : callFindIndex(f)

PureSpec == PureInit /\ [][PureNext]_vars

(***************************************************************************)
(* Properties                                                              *)
(***************************************************************************)
RoleOK(c) == c.role \in {"user", "model"}
RolesOK(h) == \A i \in 1..Len(h) : RoleOK(h[i])

Alternates(h) == \A i \in 1..(Len(h) - 1) : h[i].role # h[i + 1].role

\* C1: whatever operations produced History, the curated history
\* getHistory(true) is empty or strictly alternates user/model: no two
\* adjacent curated turns have the same role.
C1_CuratedAlternates ==
  ~CurationLoops(history) => Alternates(extractCuratedHistory(history))

\* C2: curation is idempotent: curating the curated projection of a raw
\* history gives that curated projection again.
C2_CurationIdempotent ==
  tc.res = "curated" => extractCuratedHistory(tc.cur) = tc.cur

C2_Witness ==
  /\ tc.res = "curated"
  /\ Len(tc.cur) > 0
  /\ Len(tc.cur) < Len(tc.before)
  /\ \E i \in 1..Len(tc.cur) : tc.cur[i].role = "model"

\* a model turn as the claim defines validity: a non-empty fragment list, no
\* empty-object fragment, no empty non-thought text fragment
ValidTurn(c) ==
  /\ c.parts # <<>>
  /\ \A j \in 1..Len(c.parts) :
        /\ c.parts[j].k # "empty"
        /\ c.parts[j].k = "text" => Len(c.parts[j].text) > 0

\* i and j lie in one run of consecutive model turns
SameRun(h, i, j) ==
  \A k \in (IF i < j THEN i ELSE j)..(IF i < j THEN j ELSE i) : h[k].role = "model"

InInvalidRun(h, i) ==
  /\ h[i].role = "model"
  /\ \E j \in 1..Len(h) : SameRun(h, i, j) /\ ~ValidTurn(h[j])

Kept(h, i) ==
  IF h[i].role = "model" THEN ~InInvalidRun(h, i)
  ELSE ~(i < Len(h) /\ InInvalidRun(h, i + 1))

RECURSIVE KeptFrom(_, _)
KeptFrom(h, i) ==
  IF i > Len(h) THEN <<>>
  ELSE (IF Kept(h, i) THEN <<h[i]>> ELSE <<>>) \o KeptFrom(h, i + 1)

\* C3: getHistory(true) is the subsequence of H that drops every maximal run
\* of model turns containing an invalid turn together with the user turn right
\* before that run, and keeps every other turn in order; every model turn
\* left is valid.
C3_CuratedIsKeptSubsequence ==
  tc.res = "curated" =>
    /\ tc.cur = KeptFrom(tc.before, 1)
    /\ \A i \in 1..Len(tc.cur) : tc.cur[i].role = "model" => ValidTurn(tc.cur[i])

C3_Witness ==
  /\ tc.res = "curated"
  /\ tc.before = <<MTh, U1, MO>>
  /\ tc.cur = <<MTh>>

\* C4: setHistory and the constructor reject any list holding a turn whose
\* role is not user or model; a rejected setHistory leaves History as it was,
\* an accepted one makes History the given list.
C4_SetHistoryAtomic ==
  [][\A h \in SetPool :
        setHistory(h) =>
          IF RolesOK(h)
          THEN history' = h /\ thrown' = "none"
          ELSE history' = history /\ thrown' = "Role must be user or model"]_vars

C4_Witness ==
  /\ thrown = "Role must be user or model"
  /\ Len(history) > 0
  /\ tc.pc = "idle"

\* C5: in every reachable state every turn stored in History has role user or
\* model.
C5_StoredRolesValid == RolesOK(history)

\* model outputs that are all pure non-empty text
PureTextOutputs(m) ==
  /\ Len(m) >= 1
  /\ \A j \in 1..Len(m) :
        /\ m[j].role = "model"
        /\ Len(m[j].parts) = 1
        /\ m[j].parts[1].k = "text"
        /\ Len(m[j].parts[1].text) > 0

RECURSIVE ConcatTexts(_)
ConcatTexts(m) ==
  IF Len(m) = 0 THEN <<>> ELSE m[1].parts[1].text \o ConcatTexts(Tail(m))

\* C6: recordHistory with a user-role input, no external history and n >= 1
\* pure non-empty text outputs appends exactly two entries, whatever History
\* held: the user input, then one model turn whose first fragment's text is
\* the concatenation of the output texts in order.
C6_RecordAppendsPair ==
  [][\A u \in UserInputs, m \in OutPool :
        (u.role = "user" /\ PureTextOutputs(m) /\ recordHistory(u, m, <<>>)) =>
          LET n == Len(history)
          IN /\ Len(history') = n + 2
             /\ SubSeq(history', 1, n) = history
             /\ history'[n + 1] = u
             /\ history'[n + 2].role = "model"
             /\ history'[n + 2].parts[1].text = ConcatTexts(m)]_vars

C6_Witness ==
  /\ tc.pc = "idle"
  /\ history = <<MT, U1, Turn("model", <<Txt(<<"b", "c", "d">>)>>)>>

\* the text the summary request of the model yields: the text parts of the
\* candidate joined by a line feed, trimmed
ExpectedSummary == <<"s", "\n", "t">>

\* C7: after a successful compression History is exactly one user turn whose
\* only text is the summary, one model turn with the fixed acknowledgment
\* text, then the curated turns from the cut index onward, unchanged and in
\* order.
C7_CompressedShape ==
  (tc.pc = "done" /\ tc.res = "info") =>
    LET curated == extractCuratedHistory(tc.before)
    IN history = << [role |-> "user", parts |-> <<[k |-> "text", text |-> ExpectedSummary]>>],
                    [role |-> "model", parts |-> <<[k |-> "text", text |-> AckText]>>] >>
                 \o SubSeq(curated, tc.cut + 1, Len(curated))

C7_Witness ==
  /\ tc.pc = "done"
  /\ tc.res = "info"
  /\ Len(history) = 4
  /\ history[3] = U1
  /\ history[4] = MT

\* the three conditions of the claim, on what the call was given
GateOpen(t) ==
  /\ Len(extractCuratedHistory(t.before)) > 0
  /\ t.orig # UndefinedCount
  /\ (t.force \/ t.orig * 10 >= t.thr * TokenLimit)

PreserveInRange(t) == 0 < t.pres /\ t.pres < 10

GenerationFailed(t) == t.err \in {"generation", "nosummary"}

\* C8 as stated: the summary call is issued, and History replaced unless that
\* call fails, if and only if the curated history is non-empty, the token
\* count is determined and (force or tokenCount >= threshold * limit); in
\* every other case the call returns null, issues no generation call and
\* leaves History unchanged.
C8_GateAsStated ==
  tc.pc = "done" =>
    IF GateOpen(tc)
    THEN tc.gen = 1 /\ (~GenerationFailed(tc) => tc.replaced)
    ELSE tc.res = "null" /\ tc.gen = 0 /\ ~tc.replaced /\ history = tc.before

\* C8 amended: the summary call is issued if and only if the three conditions
\* hold and preserveThreshold lies strictly between 0 and 1; History is
\* replaced if and only if moreover that call yields candidate content. When
\* one of the three conditions fails the call returns null; when only
\* preserveThreshold is out of range it raises; in both cases no generation
\* call is made and History is unchanged.
C8_Gate ==
  tc.pc = "done" =>
    /\ tc.gen = 1 <=> (GateOpen(tc) /\ PreserveInRange(tc))
    /\ tc.replaced <=> (GateOpen(tc) /\ PreserveInRange(tc) /\ ~GenerationFailed(tc))
    /\ ~GateOpen(tc) => (tc.res = "null" /\ history = tc.before)
    /\ (GateOpen(tc) /\ ~PreserveInRange(tc)) => (tc.res = "error" /\ history = tc.before)
    /\ ~tc.replaced => history = tc.before
    /\ tc.replaced =>
         /\ Len(history) >= 2
         /\ history[1].role = "user"
         /\ history[2] = [role |-> "model", parts |-> <<[k |-> "text", text |-> AckText]>>]

C8_Witness ==
  /\ tc.pc = "done"
  /\ tc.gen = 1
  /\ tc.replaced
  /\ ~tc.force
  /\ tc.orig * 10 = tc.thr * TokenLimit

\* C9: when the summary generation call fails (it rejects, or returns no
\* candidate content), tryCompress fails with that error and History is what
\* it was before the call.
C9_FailureKeepsHistory ==
  (tc.pc = "done" /\ GenerationFailed(tc)) =>
    /\ tc.res = "error"
    /\ tc.gen = 1
    /\ history = tc.before

C9_Witness ==
  /\ tc.pc = "done"
  /\ tc.err = "nosummary"
  /\ Len(history) = 3

RECURSIVE CumLen(_, _)
CumLen(h, i) == IF i = 0 THEN 0 ELSE JsonLen(h[i]) + CumLen(h, i - 1)

\* C10: for a fraction strictly between 0 and 1 findIndexAfterFraction returns
\* a value in [0, len(history)], the smallest index i at which the cumulative
\* serialized length of turns 0..i reaches fraction * total length; for a
\* fraction <= 0 or >= 1 it raises an error.
C10_FindIndex ==
  tc.res = "index" =>
    LET h == tc.before
        f == tc.fraction
        r == tc.cut
        total == CumLen(h, Len(h))
    IN IF f <= 0 \/ f >= 10 THEN r = FractionError
       ELSE /\ r \in 0..Len(h)
            /\ Len(h) = 0 => r = 0
            /\ Len(h) > 0 =>
                 /\ r < Len(h)
                 /\ CumLen(h, r + 1) * 10 >= total * f
                 /\ \A i \in 0..(r - 1) : CumLen(h, i + 1) * 10 < total * f

C10_Witness ==
  /\ tc.res = "index"
  /\ Len(tc.before) = 3
  /\ tc.fraction = 5
  /\ tc.cut = 1
  /\ CumLen(tc.before, 2) * 10 = CumLen(tc.before, 3) * 5

(***************************************************************************)
(* The generator (packages/core/src/core/openaiCompatibleGenerator.ts).    *)
(*                                                                         *)
(* A wire message (OpenAIMessage) is a record [role, content, tool_calls]: *)
(* content is a text or Null, tool_calls is a sequence of                  *)
(* [id, name, arguments] records, empty when the key is undefined.  The    *)
(* closing reasoning marker '</think>' is carried as one element of a      *)
(* text; CharLen gives it its eight characters.                            *)
(***************************************************************************)
Null == <<"<null>">>
Think == "</think>"

Msg(r, c, tcs) == [role |-> r, content |-> c, tool_calls |-> tcs]

\* JS truthiness of a string | null
Truthy(c) == c # Null /\ c # <<>>

\* the function call parts of a turn become tool calls; a part that carries
\* no id gets `call_${index}`, the index counting function call parts only
ToolCallsOf(ps) ==
  LET calls == SelectSeq(ps, LAMBDA q : q.k = "call")
  IN [j \in 1..Len(calls) |->
        [id |-> [pre |-> "call_", n |-> j - 1], name |-> <<"f">>, arguments |-> <<"{", "}">>]]

\* convertToOpenAIMessages with no test before the push: every turn yields a
\* message
RECURSIVE convertToOpenAIMessagesUnfiltered(_)
convertToOpenAIMessagesUnfiltered(contents) ==
  IF Len(contents) = 0 THEN <<>>
  ELSE LET content == contents[1]
           role == IF content.role = "user" THEN "user" ELSE "assistant"
           text == JoinTexts(content.parts)
           messageContent == IF Trim(text) = <<>> THEN Null ELSE Trim(text)
       IN <<Msg(role, messageContent, ToolCallsOf(content.parts))>>
            \o convertToOpenAIMessagesUnfiltered(Tail(contents))

\* convertToOpenAIMessages without a system instruction
RECURSIVE convertToOpenAIMessages(_)
convertToOpenAIMessages(contents) ==
  IF Len(contents) = 0 THEN <<>>
  ELSE LET content == contents[1]
           role == IF content.role = "user" THEN "user" ELSE "assistant"
           text == JoinTexts(content.parts)
           tool_calls == ToolCallsOf(content.parts)
           messageContent == IF Trim(text) = <<>> THEN Null ELSE Trim(text)
           rest == convertToOpenAIMessages(Tail(contents))
       IN IF messageContent # Null \/ Len(tool_calls) > 0
          THEN <<Msg(role, messageContent, tool_calls)>> \o rest
          ELSE rest

\* text.indexOf('</think>'), 0 when absent, else the 1-based position
RECURSIVE IndexOfThink(_, _)
IndexOfThink(t, i) ==
  IF i > Len(t) THEN 0 ELSE IF t[i] = Think THEN i ELSE IndexOfThink(t, i + 1)

\* trimThink: the part {text, thought}
trimThink(text) ==
  LET posThink == IndexOfThink(text, 1)
  IN IF posThink > 0
     THEN Thought(Trim(SubSeq(text, posThink + 1, Len(text))))
     ELSE Txt(text)

\* convertOpenAIToolCallsToGemini: one function call part per tool call
convertOpenAIToolCallsToGemini(toolCalls) == [j \in 1..Len(toolCalls) |-> CallPart]

\* convertToGeminiResponse: candidates[0].content of the response built from
\* choices[0].message
convertToGeminiResponse(message) ==
  LET textParts == IF Truthy(message.content) THEN <<trimThink(message.content)>> ELSE <<>>
      parts == textParts \o convertOpenAIToolCallsToGemini(message.tool_calls)
  IN Turn("model", IF Len(parts) > 0 THEN parts ELSE <<Txt(<<>>)>>)

(***************************************************************************)
(* Token estimator and budget optimizer                                    *)
(***************************************************************************)
ModelMaxTokens == 128000   \* modelTokenLimits 'default': maxTokens
ReserveTokens == 1000      \* modelTokenLimits: reserveTokens

CeilDiv(a, b) == (a + b - 1) \div b

\* characters of one element of a text
Width(ch) == IF ch = Think THEN 8 ELSE 1

\* the \w characters that occur in the model's texts
WordChars ==
  {"a", "b", "c", "d", "e", "f", "n", "o", "r", "s", "t", "u", "x", "G"}

\* /[^\w\s]/ matches of one element
Specials(ch) ==
  IF ch = Think THEN 3
  ELSE IF IsSpace(ch) \/ ch \in WordChars THEN 0
  ELSE 1

\* sums over a text, written as cardinalities so that a long text needs no
\* deep recursion
CharLen(t) == Cardinality({<<i, k>> \in (1..Len(t)) \X (1..8) : k <= Width(t[i])})

SpecialCount(t) == Cardinality({<<i, k>> \in (1..Len(t)) \X (1..3) : k <= Specials(t[i])})

\* text.split(/\s+/).length: one more than the number of whitespace runs
WordCount(t) ==
  1 + Cardinality({i \in 1..Len(t) : IsSpace(t[i]) /\ (i = 1 \/ ~IsSpace(t[i - 1]))})

\* estimateTokens; Math.ceil(n * 0.1) and Math.ceil(n * 0.3) equal the exact
\* ceilings for the counts that occur here (n < 10, or n a multiple of 10
\* below 30)
estimateTokens(text) ==
  IF ~Truthy(text) THEN 0
  ELSE CeilDiv(CharLen(text), 4) + CeilDiv(WordCount(text), 10)
         + CeilDiv(3 * SpecialCount(text), 10)

RECURSIVE ToolCallTokens(_, _)
ToolCallTokens(tcs, i) ==
  IF i = 0 THEN 0
  ELSE estimateTokens(tcs[i].name) + estimateTokens(tcs[i].arguments) + 5
         + ToolCallTokens(tcs, i - 1)

estimateMessageTokens(message) ==
  4 + estimateTokens(message.content)
    + (IF Len(message.tool_calls) > 0
       THEN 10 + ToolCallTokens(message.tool_calls, Len(message.tool_calls))
       ELSE 0)

\* the estimated token costs of a list of messages, summed
RECURSIVE TokensOf(_)
TokensOf(ms) ==
  IF ms = <<>> THEN 0 ELSE estimateMessageTokens(Head(ms)) + TokensOf(Tail(ms))

\* prioritizeMessages: the priority of the message at 0-based index
Priority(messages, index) ==
  LET message == messages[index + 1]
      n == Len(messages)
      estimatedTokens == estimateMessageTokens(message)
      base == IF message.role = "system" THEN 1000
              ELSE IF index >= n - 5 THEN 500 + (index - (n - 5)) * 50
              ELSE IF Len(message.tool_calls) > 0 THEN 400
              ELSE IF message.role = "user" THEN 300
              ELSE 200
  IN IF estimatedTokens > 1000 THEN base - (estimatedTokens \div 1000) * 50 ELSE base

\* content.split(' '): the pieces between consecutive spaces
SpaceAt(t, k) ==
  LET sp == {i \in 1..Len(t) : t[i] = " "}
  IN IF k = 0 THEN 0
     ELSE IF k > Cardinality(sp) THEN Len(t) + 1
     ELSE CHOOSE i \in sp : Cardinality({j \in sp : j <= i}) = k

SplitSpace(t) ==
  [k \in 1..(Cardinality({i \in 1..Len(t) : t[i] = " "}) + 1) |->
     SubSeq(t, SpaceAt(t, k - 1) + 1, SpaceAt(t, k) - 1)]

\* '...[truncated]'
TruncatedMark ==
  <<".", ".", ".", "[", "t", "r", "u", "n", "c", "a", "t", "e", "d", "]">>

\* the word loop of truncateMessage: [text, wordCount]
RECURSIVE FitWords(_, _, _, _)
FitWords(words, truncated, wordCount, contentTokens) ==
  IF Len(words) = 0 THEN [text |-> truncated, wordCount |-> wordCount]
  ELSE LET testContent == truncated \o (IF truncated # <<>> THEN <<" ">> ELSE <<>>) \o words[1]
       IN IF estimateTokens(testContent) > contentTokens
          THEN [text |-> truncated, wordCount |-> wordCount]
          ELSE FitWords(Tail(words), testContent, wordCount + 1, contentTokens)

\* truncateMessage: "null", the message itself ("same"), or a new object
truncateMessage(message, maxTokens) ==
  IF maxTokens <= 10 THEN [kind |-> "null"]
  ELSE IF ~Truthy(message.content) THEN [kind |-> "same", m |-> message]
  ELSE LET contentTokens == maxTokens - 10
           currentTokens == estimateTokens(message.content)
           targetLength == (CharLen(message.content) * contentTokens * 9)
                             \div (currentTokens * 10)
           fit == FitWords(SplitSpace(message.content), <<>>, 0, contentTokens)
       IN IF currentTokens <= contentTokens THEN [kind |-> "same", m |-> message]
          ELSE IF targetLength <= 50 THEN [kind |-> "null"]
          ELSE IF fit.wordCount = 0 THEN [kind |-> "null"]
          ELSE [kind |-> "new",
                m |-> [message EXCEPT !.content = fit.text \o TruncatedMark]]

\* the tokens of the tool declarations: [name, description] each, no
\* parameters schema
RECURSIVE ToolTokens(_, _)
ToolTokens(tools, i) ==
  IF i = 0 THEN 0
  ELSE 10 + estimateTokens(tools[i].name) + estimateTokens(tools[i].description)
         + ToolTokens(tools, i - 1)

\* Array.prototype.sort (stable), ascending by the key field
RECURSIVE InsertByKey(_, _)
InsertByKey(sorted, x) ==
  IF Len(sorted) = 0 THEN <<x>>
  ELSE IF sorted[Len(sorted)].key <= x.key THEN Append(sorted, x)
  ELSE Append(InsertByKey(SubSeq(sorted, 1, Len(sorted) - 1), x), sorted[Len(sorted)])

RECURSIVE SortByKey(_)
SortByKey(items) ==
  IF Len(items) = 0 THEN <<>>
  ELSE InsertByKey(SortByKey(SubSeq(items, 1, Len(items) - 1)), items[Len(items)])

\* the system messages that fit, in order
RECURSIVE AddSystem(_, _, _)
AddSystem(items, acc, availableTokens) ==
  IF Len(items) = 0 THEN acc
  ELSE LET item == items[1]
       IN AddSystem(Tail(items),
            IF acc.totalTokens + item.estimatedTokens <= availableTokens
            THEN [optimized |-> Append(acc.optimized, item),
                  totalTokens |-> acc.totalTokens + item.estimatedTokens]
            ELSE acc,
            availableTokens)

\* the other messages by priority: taken whole, truncated, or dropped.  An
\* entry of optimized is [m, src, fresh]: the message, the 0-based index of
\* its original, and whether it is a new object made by truncateMessage
RECURSIVE AddOthers(_, _, _)
AddOthers(items, acc, availableTokens) ==
  IF Len(items) = 0 THEN acc
  ELSE LET item == items[1]
           truncated == truncateMessage(item.m, availableTokens - acc.totalTokens)
           taken == IF truncated.kind = "same" THEN item
                    ELSE [item EXCEPT !.m = truncated.m, !.fresh = TRUE]
       IN AddOthers(Tail(items),
            IF acc.totalTokens + item.estimatedTokens <= availableTokens
            THEN [optimized |-> Append(acc.optimized, item),
                  totalTokens |-> acc.totalTokens + item.estimatedTokens]
            ELSE IF truncated.kind = "null" THEN acc
            ELSE [optimized |-> Append(acc.optimized, taken),
                  totalTokens |-> acc.totalTokens + estimateMessageTokens(taken.m)],
            availableTokens)

\* messageOrder.get(a) || 0: the Map is keyed by the input objects, so a new
\* object made by truncateMessage is not found
OrderKey(item) == IF item.fresh THEN 0 ELSE item.src

\* optimizeMessages: [kind |-> "throw"], or the entries kept, in the order
\* returned, with the tokens counted
optimizeMessages(messages, maxTokens, tools) ==
  LET toolTokens == ToolTokens(tools, Len(tools))
      limit == IF maxTokens < ModelMaxTokens THEN maxTokens ELSE ModelMaxTokens
      availableTokens == limit - ReserveTokens - toolTokens
      prioritized == [i \in 1..Len(messages) |->
                        [m |-> messages[i], src |-> i - 1, fresh |-> FALSE,
                         estimatedTokens |-> estimateMessageTokens(messages[i]),
                         key |-> 0 - Priority(messages, i - 1)]]
      system == AddSystem(SelectSeq(prioritized, LAMBDA q : q.m.role = "system"),
                          [optimized |-> <<>>, totalTokens |-> 0], availableTokens)
      nonSystemMessages == SortByKey(SelectSeq(prioritized, LAMBDA q : q.m.role # "system"))
      filled == AddOthers(nonSystemMessages, system, availableTokens)
      keyed == [i \in 1..Len(filled.optimized) |->
                  [filled.optimized[i] EXCEPT !.key = OrderKey(filled.optimized[i])]]
  IN IF availableTokens <= 0 THEN [kind |-> "throw"]
     ELSE [kind |-> "ok", optimized |-> SortByKey(keyed),
           totalTokens |-> filled.totalTokens, availableTokens |-> availableTokens]

\* the messages of an optimizer result
MessagesOf(r) == [i \in 1..Len(r.optimized) |-> r.optimized[i].m]

(***************************************************************************)
(* Helper calls: a pure helper of the generator applied to one argument    *)
(***************************************************************************)
MaxText == 3      \* longest text of a fragment handed to the translator

WireChars == {"a", " ", "\n", Think}
WireTexts == SeqsUpTo(WireChars, MaxText)
ShortTexts == {t \in WireTexts : Len(t) <= 2}

\* turns handed to the translator: one or two text fragments, or a call
WireTurns ==
  {Turn(r, <<Txt(t)>>) : r \in {"user", "model"}, t \in WireTexts}
    \cup {Turn(r, <<Txt(t), Txt(u)>>) : r \in {"user", "model"}, t \in ShortTexts, u \in ShortTexts}
    \cup {MC, Turn("model", <<Txt(<<"a">>), CallPart>>)}

MaxMsgs == 3      \* longest message list handed to the optimizer

\* a word of n characters, and four 39-character words: 159 characters
Word(n) == [i \in 1..n |-> "x"]
LongText == Word(39) \o <<" ">> \o Word(39) \o <<" ">> \o Word(39) \o <<" ">> \o Word(39)

SysMsg == Msg("system", <<"s">>, <<>>)
UserMsg == Msg("user", <<"a">>, <<>>)
AsstMsg == Msg("assistant", <<"b">>, <<>>)
LongMsg == Msg("user", LongText, <<>>)
CallMsg == Msg("assistant", Null, ToolCallsOf(<<CallPart>>))

MsgPool == {SysMsg, UserMsg, AsstMsg, LongMsg, CallMsg}
MsgLists == SeqsUpTo(MsgPool, MaxMsgs)

\* request.config.maxOutputTokens || 4096
MaxTokensPool == {1000, 1012, 1040, 1440, 4096}

\* the tool declarations of a request
ToolsPool == {<<>>, <<[name |-> <<"f">>, description |-> <<>>]>>}

HelperInit ==
  /\ history = <<>>
  /\ tc = IdleTc
  /\ thrown = "none"
  /\ hung = FALSE
  /\ fac = IdleFac
  /\ dec = IdleDec
  /\ io = IdleIo

\* convertToGeminiResponse applied to the message convertToOpenAIMessages
\* makes of one turn; "nomessage" when the turn yields no message
callRoundTrip(T) ==
  /\ io.op = "none"
  /\ LET wire == convertToOpenAIMessages(<<T>>)
     IN io' = [op |-> "roundTrip", arg |-> T, wire |-> wire,
               res |-> IF Len(wire) = 0 THEN Turn("nomessage", <<>>)
                       ELSE convertToGeminiResponse(wire[1])]
  /\ UNCHANGED <<mgrVars, fac, dec>>

\* optimizeMessages applied to a message list
callOptimize(messages, maxTokens, tools) ==
  /\ io.op = "none"
  /\ io' = [op |-> "optimize", arg |-> messages, maxTokens |-> maxTokens,
            tools |-> tools, res |-> optimizeMessages(messages, maxTokens, tools)]
  /\ UNCHANGED <<mgrVars, fac, dec>>

HelperNext ==
  \/ \E T \in WireTurns : callRoundTrip(T)
  \/ \E ms \in MsgLists, n \in MaxTokensPool, tl \in ToolsPool : callOptimize(ms, n, tl)

HelperSpec == HelperInit /\ [][HelperNext]_vars

(***************************************************************************)
(* The facade: generateContent and generateContentStream, one action per   *)
(* segment between awaits.  fac holds the locals of the request in flight  *)
(* and, as a record of what happened, the transport requests sent (sent),  *)
(* the number of recordHistory calls made (records), and how the call      *)
(* ended (outcome, error).                                                 *)
(***************************************************************************)
\* the error text 'OpenAI API error: status statusText - body', by the words
\* it holds
Includes(body, w) ==
  w \in body \/ (w = "exceeded" /\ "context_length_exceeded" \in body)

isTokenLimitError(status, body) ==
  \/ /\ status = 400
     /\ Includes(body, "token")
     /\ \/ Includes(body, "limit")
        \/ Includes(body, "maximum")
        \/ Includes(body, "exceeded")
        \/ Includes(body, "too long")
  \/ Includes(body, "context_length_exceeded")

\* originalMessages: the curated history, then the request's contents unless
\* its last message repeats the last message of the history
buildMessages(h, contents) ==
  IF Len(h) > 0
  THEN LET fromHistory == convertToOpenAIMessages(extractCuratedHistory(h))
           requestMessages == convertToOpenAIMessages(contents)
       IN IF Len(requestMessages) = 0 THEN fromHistory
          ELSE IF \/ Len(fromHistory) = 0
                  \/ fromHistory[Len(fromHistory)].content
                       # requestMessages[Len(requestMessages)].content
                  \/ fromHistory[Len(fromHistory)].role
                       # requestMessages[Len(requestMessages)].role
          THEN fromHistory \o requestMessages
          ELSE fromHistory
  ELSE convertToOpenAIMessages(contents)

\* variant: nothing is sent in place of the optimizer's result when it throws
firstMessagesOptimizedOnly(originalMessages, maxTokens, tools) ==
  LET r == optimizeMessages(originalMessages, maxTokens, tools)
  IN IF r.kind = "throw" \/ Len(r.optimized) = 0 THEN <<>>
     ELSE MessagesOf(r)

\* messages: the optimizer's result, or the original messages when it throws
\* or returns nothing
firstMessages(originalMessages, maxTokens, tools) ==
  LET r == optimizeMessages(originalMessages, maxTokens, tools)
  IN IF r.kind = "throw" \/ Len(r.optimized) = 0 THEN originalMessages
     ELSE MessagesOf(r)

\* variant: the retry budget is the full allowance
retryBudgetFull(maxTokens) == maxTokens

\* Math.floor(maxTokens * 0.7)
retryBudget(maxTokens) == (maxTokens * 7) \div 10

\* the model output of a complete response: candidates[0].content
modelOutputOf(message) == <<convertToGeminiResponse(message)>>

\* the model output the recording wrapper builds from the collected parts
streamOutputOf(parts) == IF Len(parts) > 0 THEN <<Turn("model", parts)>> ELSE <<>>

\* requests: contents, streamed or not, maxOutputTokens, tools
UL == Turn("user", <<Txt(LongText)>>)
ContentsPool == {<<U1>>, <<UL>>}

\* maxOutputTokens and tool declarations of a request
BudgetPool ==
  {[maxTokens |-> n, tools |-> <<>>] : n \in MaxTokensPool}
    \cup {[maxTokens |-> 1052, tools |-> tl] : tl \in ToolsPool \ {<<>>}}

\* transport answers: the fetch rejects; a 2xx answer with a body; a non-2xx
\* answer with a status and the words of its body
BodyWords == {{}, {"token", "limit"}, {"context_length_exceeded"}}
HttpErrors ==
  {[kind |-> "http", status |-> st, body |-> b] : st \in {400, 500}, b \in BodyWords}

\* the backend is a model that sends its reasoning, closed by the marker,
\* ahead of its answer
Reasons == io.op = "reasoning"
ReasonedMsg == Msg("assistant", <<"r", Think, "d">>, <<>>)

\* bodies of a complete answer: one choice, no choice, or not JSON
CompleteBodies ==
  {[kind |-> "ok", body |-> "choice", message |-> m] :
      m \in {Msg("assistant", <<"b">>, <<>>), Msg("assistant", Null, ToolCallsOf(<<CallPart>>))}
             \cup (IF Reasons THEN {ReasonedMsg} ELSE {})}
    \cup {[kind |-> "ok", body |-> b, message |-> Msg("assistant", Null, <<>>)] :
            b \in {"nochoices", "badjson"}}

\* streamed answers, as the fragments the decoder yields and how it ends: at
\* the end of the stream, or with an error raised by a read
StreamBodies ==
  {[kind |-> "ok", body |-> "stream", chunks |-> c, ends |-> e] :
      c \in {<<>>, <<<<Txt(<<"b">>)>>>>, <<<<Txt(<<"c">>)>>, <<Txt(<<"d">>)>>>>},
      e \in {"end", "error"}}

Rejected == [kind |-> "reject"]

Answers(stream) ==
  {Rejected} \cup HttpErrors \cup (IF stream THEN StreamBodies ELSE CompleteBodies)

FacadeInit ==
  /\ history \in {<<>>, <<U1, MT>>, <<U1, ME>>}
  /\ tc = IdleTc
  /\ thrown = "none"
  /\ hung = FALSE
  /\ fac = IdleFac
  /\ dec = IdleDec
  /\ io = IdleIo

\* the request that ended was a text exchange: one message sent for a user
\* text, a text answered (a complete answer returned, or a stream of at least
\* one fragment consumed to its end), History not compressed on the way
TextExchange(f) ==
  /\ f.pc = "done"
  /\ f.compression # "info"
  /\ IF f.stream THEN f.outcome = "consumed" /\ f.yielded > 0
     ELSE /\ f.outcome = "returned"
          /\ LET answer == IF f.retry.kind = "ok" THEN f.retry ELSE f.first
             IN Truthy(answer.message.content) /\ answer.message.tool_calls = <<>>

\* the number of requests served so far, counted for a conversation that
\* started with an empty History while each request was a text exchange and
\* there were at most MaxExchanges of them, else NoExchanges
MaxExchanges == 1
NoExchanges == 0 - 1
Counting == io.op = "exchanges"
ExchangesAfter(f) ==
  IF ~Counting THEN NoExchanges
  ELSE IF f.pc = "idle" THEN 0
  ELSE IF f.textExchanges \in 0..(MaxExchanges - 1) /\ TextExchange(f)
       THEN f.textExchanges + 1
  ELSE NoExchanges

\* generateContent / generateContentStream up to the await of tryCompress
generateContent(contents, stream, maxTokens, tools) ==
  /\ fac.pc \in {"idle", "done"}
  /\ Len(history) < MaxHist
  /\ fac' = [pc |-> "compress", contents |-> contents, stream |-> stream,
             maxTokens |-> maxTokens, tools |-> tools, before |-> history,
             originalMessages |-> <<>>, messages |-> <<>>, sent |-> <<>>,
             first |-> Rejected, retry |-> Rejected, records |-> 0,
             outcome |-> "none", error |-> "none", raised |-> "none",
             compression |-> "none", wrapped |-> FALSE,
             textExchanges |-> ExchangesAfter(fac),
             chunks |-> <<>>, ends |-> "end", parts |-> <<>>, yielded |-> 0,
             built |-> <<>>, recorded |-> <<>>]
  /\ UNCHANGED <<history, tc, thrown, hung, dec, io>>

\* the end of a call
Returned(f) == [f EXCEPT !.pc = "done", !.outcome = "returned"]
\* the telemetry sink behind logApiError fails by throwing
sinkThrows == io.op = "telemetry" /\ io.throws

\* this.logApiError(..., error): nothing guards the emission, so the call
\* throws when the sink does, inside the try or in its catch block, and that
\* error is the one that leaves the function in place of error
logApiError(e) == IF sinkThrows THEN "telemetry" ELSE e

\* the error is logged and thrown: raised is the error the facade built,
\* error the one its caller gets
Threw(f, e) ==
  [f EXCEPT !.pc = "done", !.outcome = "threw", !.raised = e, !.error = logApiError(e)]

\* await tryCompress, seen from the facade: it returns null or throws and
\* History is as it was, or it returns the token counts and History is the
\* summary, the acknowledgment and the kept tail
CompressionOutcomes(h) ==
  LET cur == extractCuratedHistory(h)
      idx == findIndexAfterFraction(cur, 10 - COMPRESSION_PRESERVE_THRESHOLD)
  IN {[res |-> "null", h |-> h]}
       \cup (IF Len(cur) = 0 THEN {}
             ELSE {[res |-> "threw", h |-> h],
                   [res |-> "info",
                    h |-> CompressedHistory(<<"s">>, historyToKeep(cur, AdvanceToUser(cur, idx)))]})

\* variant: an error thrown by tryCompress ends the request
CompressionSettledSurfacing(o) ==
  /\ fac.pc = "compress"
  /\ o \in CompressionOutcomes(history)
  /\ history' = o.h
  /\ LET originalMessages == buildMessages(o.h, fac.contents)
         messages == firstMessages(originalMessages, fac.maxTokens, fac.tools)
     IN fac' = IF o.res = "threw"
               THEN Threw([fac EXCEPT !.compression = o.res, !.built = o.h], "compression")
               ELSE [fac EXCEPT !.pc = "fetch", !.originalMessages = originalMessages,
                                !.messages = messages, !.sent = <<messages>>,
                                !.built = o.h, !.compression = o.res]
  /\ UNCHANGED <<tc, thrown, hung, dec, io>>

\* tryCompress settled, its error caught and logged: the messages are built
\* from History and optimized, the request sent
CompressionSettled(o) ==
  /\ fac.pc = "compress"
  /\ o \in CompressionOutcomes(history)
  /\ history' = o.h
  /\ LET originalMessages == buildMessages(o.h, fac.contents)
         messages == firstMessages(originalMessages, fac.maxTokens, fac.tools)
     IN fac' = [fac EXCEPT !.pc = "fetch", !.originalMessages = originalMessages,
                           !.messages = messages, !.sent = <<messages>>,
                           !.built = o.h, !.compression = o.res]
  /\ UNCHANGED <<tc, thrown, hung, dec, io>>

\* the request's last user input
userInputOf(contents) == contents[Len(contents)]

\* a complete 2xx answer is read, translated and recorded: the new fac and
\* History, given the error to throw when reading or translating fails
Completed(f, answer, onFailure) ==
  IF answer.body = "badjson" THEN [f |-> Threw(f, IF onFailure = "own" THEN "json" ELSE onFailure), h |-> history]
  ELSE IF answer.body = "nochoices" THEN [f |-> Threw(f, IF onFailure = "own" THEN "nochoices" ELSE onFailure), h |-> history]
  ELSE LET modelOutput == modelOutputOf(answer.message)
           h == RecordedHistory(history, userInputOf(f.contents), modelOutput, <<>>)
       IN [f |-> Returned([f EXCEPT !.records = @ + 1, !.recorded = modelOutput]), h |-> h]

\* a streamed 2xx answer: the generator handed to the caller
Streaming(f, answer, wrapped) ==
  [f EXCEPT !.pc = "stream", !.outcome = "returned", !.wrapped = wrapped,
            !.chunks = answer.chunks, !.ends = answer.ends]

\* the first fetch settled
FetchSettled(answer) ==
  /\ fac.pc = "fetch"
  /\ answer \in Answers(fac.stream)
  /\ LET f == [fac EXCEPT !.first = answer]
         aggressivelyOptimized ==
           optimizeMessages(fac.originalMessages, retryBudget(fac.maxTokens), fac.tools)
         done == Completed(f, answer, "own")
     IN IF answer.kind = "reject" THEN fac' = Threw(f, "network") /\ UNCHANGED history
        ELSE IF answer.kind = "http" THEN
          /\ UNCHANGED history
          /\ fac' = IF /\ isTokenLimitError(answer.status, answer.body)
                       /\ Len(fac.messages) = Len(fac.originalMessages)
                       /\ aggressivelyOptimized.kind = "ok"
                       /\ Len(aggressivelyOptimized.optimized) > 0
                    THEN [f EXCEPT !.pc = "retry",
                                   !.sent = Append(@, MessagesOf(aggressivelyOptimized))]
                    ELSE Threw(f, "first")
        ELSE IF fac.stream THEN fac' = Streaming(f, answer, TRUE) /\ UNCHANGED history
        ELSE fac' = done.f /\ history' = done.h
  /\ UNCHANGED <<tc, thrown, hung, dec, io>>

\* variant: a failed retry surfaces its own error
RetrySettledOwnError(answer) ==
  /\ fac.pc = "retry"
  /\ answer \in Answers(fac.stream)
  /\ LET f == [fac EXCEPT !.retry = answer]
         done == Completed(f, answer, "retry")
     IN IF answer.kind = "reject" THEN fac' = Threw(f, "retry") /\ UNCHANGED history
        ELSE IF answer.kind = "http" THEN fac' = Threw(f, "retry") /\ UNCHANGED history
        ELSE IF fac.stream THEN fac' = Streaming(f, answer, FALSE) /\ UNCHANGED history
        ELSE fac' = done.f /\ history' = done.h
  /\ UNCHANGED <<tc, thrown, hung, dec, io>>

\* the retry fetch settled: any failure surfaces the first answer's error
RetrySettled(answer) ==
  /\ fac.pc = "retry"
  /\ answer \in Answers(fac.stream)
  /\ LET f == [fac EXCEPT !.retry = answer]
         done == Completed(f, answer, "first")
     IN IF answer.kind = "reject" THEN fac' = Threw(f, "first") /\ UNCHANGED history
        ELSE IF answer.kind = "http" THEN fac' = Threw(f, "first") /\ UNCHANGED history
        ELSE IF fac.stream THEN fac' = Streaming(f, answer, FALSE) /\ UNCHANGED history
        ELSE fac' = done.f /\ history' = done.h
  /\ UNCHANGED <<tc, thrown, hung, dec, io>>

\* the consumer asks the returned generator for the next fragment: a
\* fragment is yielded, or the stream ends (the recording wrapper, when there
\* is one and a fragment was seen, records the turn) or raises
StreamNext ==
  /\ fac.pc = "stream"
  /\ IF fac.yielded < Len(fac.chunks)
     THEN /\ fac' = [fac EXCEPT !.yielded = @ + 1,
                                !.parts = @ \o fac.chunks[fac.yielded + 1]]
          /\ UNCHANGED history
     ELSE IF fac.ends = "error"
     THEN /\ fac' = [fac EXCEPT !.pc = "done", !.outcome = "streamerror"]
          /\ UNCHANGED history
     ELSE IF fac.wrapped /\ fac.yielded > 0
     THEN /\ history' = RecordedHistory(history, userInputOf(fac.contents),
                                        streamOutputOf(fac.parts), <<>>)
          /\ fac' = [fac EXCEPT !.pc = "done", !.outcome = "consumed",
                                !.records = @ + 1,
                                !.recorded = streamOutputOf(fac.parts)]
     ELSE /\ fac' = [fac EXCEPT !.pc = "done", !.outcome = "consumed"]
          /\ UNCHANGED history
  /\ UNCHANGED <<tc, thrown, hung, dec, io>>

\* the consumer stops iterating before the stream ends
StreamAbandon ==
  /\ fac.pc = "stream"
  /\ fac' = [fac EXCEPT !.pc = "done", !.outcome = "abandoned"]
  /\ UNCHANGED <<history, tc, thrown, hung, dec, io>>

FacadeNext ==
  \/ \E c \in ContentsPool, st \in BOOLEAN, b \in BudgetPool :
        generateContent(c, st, b.maxTokens, b.tools)
  \/ \E o \in CompressionOutcomes(history) : CompressionSettled(o)
  \/ \E a \in Answers(TRUE) \cup Answers(FALSE) : FetchSettled(a)
  \/ \E a \in Answers(TRUE) \cup Answers(FALSE) : RetrySettled(a)
  \/ StreamNext
  \/ StreamAbandon

FacadeSpec == FacadeInit /\ [][FacadeNext]_vars

\* the facade with a telemetry sink that works or fails
TelemetryInit ==
  /\ history \in {<<>>, <<U1, MT>>, <<U1, ME>>}
  /\ tc = IdleTc
  /\ thrown = "none"
  /\ hung = FALSE
  /\ fac = IdleFac
  /\ dec = IdleDec
  /\ io \in {[op |-> "telemetry", throws |-> b] : b \in BOOLEAN}

TelemetrySpec == TelemetryInit /\ [][FacadeNext]_vars

\* the facade in front of a backend that sends its reasoning
ReasoningInit ==
  /\ history \in {<<>>, <<U1, MT>>, <<U1, ME>>}
  /\ tc = IdleTc
  /\ thrown = "none"
  /\ hung = FALSE
  /\ fac = IdleFac
  /\ dec = IdleDec
  /\ io = [op |-> "reasoning"]

ReasoningSpec == ReasoningInit /\ [][FacadeNext]_vars

\* a conversation that starts with an empty History, its exchanges counted
ExchangeInit ==
  /\ history = <<>>
  /\ tc = IdleTc
  /\ thrown = "none"
  /\ hung = FALSE
  /\ fac = IdleFac
  /\ dec = IdleDec
  /\ io = [op |-> "exchanges"]

ExchangeSpec == ExchangeInit /\ [][FacadeNext]_vars

(***************************************************************************)
(* The facade as the generator of its own manager.  The constructor hands  *)
(* `this` to the ConversationManager, so the summary call of tryCompress   *)
(* is a call of the facade's generateContent, which awaits tryCompress of  *)
(* the same manager before anything else.  fac.depth counts the calls of   *)
(* generateContent in flight below the request's own, fac.secondary the    *)
(* summary calls issued; the transport answers with a text or fails.       *)
(***************************************************************************)
MaxDepth == 3     \* calls of generateContent explored below the request's own

\* countTokens of the facade: the estimate over the translated contents
countTokens(contents) == TokensOf(convertToOpenAIMessages(contents))

OwnHistories == SeqsUpTo({U1, MT, MC}, MaxHist)

OwnInit ==
  /\ history \in OwnHistories
  /\ tc = IdleTc
  /\ thrown = "none"
  /\ hung = FALSE
  /\ fac = IdleFac
  /\ dec = IdleDec
  /\ io = IdleIo

\* generateContent is called: it awaits tryCompress, which awaits countTokens
Request(contents) ==
  /\ fac.pc = "idle"
  /\ fac' = [pc |-> "count", contents |-> contents, before |-> history,
             depth |-> 0, secondary |-> 0, over |-> FALSE, outcome |-> "none"]
  /\ UNCHANGED <<history, tc, thrown, hung, dec, io>>

\* tryCompress of the call at fac.depth finds nothing to compress
NothingToCompress(h) ==
  LET cur == extractCuratedHistory(h)
  IN Len(cur) = 0 \/ UnderLimit(FALSE, countTokens(cur), COMPRESSION_TOKEN_THRESHOLD)

\* tryCompress returns null: the call at fac.depth builds and sends its request
tryCompressNull ==
  /\ fac.pc = "count"
  /\ NothingToCompress(history)
  /\ fac' = [fac EXCEPT !.pc = "fetch"]
  /\ UNCHANGED <<history, tc, thrown, hung, dec, io>>

\* tryCompress goes on to generateCompressionSummary, which calls
\* this.contentGenerator.generateContent: the facade again, awaiting
\* tryCompress of the same manager
generateCompressionSummary ==
  /\ fac.pc = "count"
  /\ ~NothingToCompress(history)
  /\ fac.depth < MaxDepth
  /\ fac' = [fac EXCEPT !.depth = @ + 1, !.secondary = @ + 1, !.over = TRUE]
  /\ UNCHANGED <<history, tc, thrown, hung, dec, io>>

\* the transport answered the call at fac.depth.  The request's own call
\* ends, recording the turn when it returns; a call made for a summary hands
\* its text to the tryCompress above it, which replaces History (whatever
\* the call recorded included) and returns, or throws into it, which the
\* generateContent above catches: either way that call sends its request
OwnSettled(ok) ==
  /\ fac.pc = "fetch"
  /\ IF fac.depth = 0
     THEN /\ fac' = [fac EXCEPT !.pc = "done",
                                !.outcome = IF ok THEN "returned" ELSE "threw"]
          /\ history' =
               IF ok
               THEN RecordedHistory(history, userInputOf(fac.contents),
                                    modelOutputOf(Msg("assistant", <<"b">>, <<>>)), <<>>)
               ELSE history
     ELSE LET cur == extractCuratedHistory(fac.before)
              idx == findIndexAfterFraction(cur, 10 - COMPRESSION_PRESERVE_THRESHOLD)
          IN /\ fac' = [fac EXCEPT !.depth = @ - 1]
             /\ history' =
                  IF ok
                  THEN CompressedHistory(<<"b">>, historyToKeep(cur, AdvanceToUser(cur, idx)))
                  ELSE history
  /\ UNCHANGED <<tc, thrown, hung, dec, io>>

OwnManagerNext ==
  \/ \E c \in ContentsPool : Request(c)
  \/ tryCompressNull
  \/ generateCompressionSummary
  \/ \E ok \in BOOLEAN : OwnSettled(ok)

OwnManagerSpec == OwnInit /\ [][OwnManagerNext]_vars

(***************************************************************************)
(* The streaming decoder: parseStreamResponse                              *)
(*                                                                         *)
(* The body of a streamed answer is a sequence of symbols: the line feed,  *)
(* the space, the six characters "data: ", and the payloads of the         *)
(* records (the sentinel, a text that is no JSON, or a JSON chunk with     *)
(* its delta's content and tool_calls).  The transport hands the body to   *)
(* the decoder in reads that may end anywhere.                             *)
(***************************************************************************)
Sym(k, content, tool_calls) == [k |-> k, content |-> content, tool_calls |-> tool_calls]

NL == Sym("\n", <<>>, <<>>)
SP == Sym(" ", <<>>, <<>>)
DATA == Sym("data: ", <<>>, <<>>)
DONE == Sym("[DONE]", <<>>, <<>>)
BAD == Sym("{bad", <<>>, <<>>)
Invalid == Sym("invalid", <<>>, <<>>)

\* a JSON chunk whose first choice has a delta
Delta(content, tool_calls) == Sym("json", content, tool_calls)

\* one entry of delta.tool_calls; index, id, name and arguments are optional
NoIndex == 0 - 1
NoId == [pre |-> "", n |-> 0]
Id(n) == [pre |-> "call_", n |-> n]
ToolDelta(index, id, name, arguments) ==
  [index |-> index, id |-> id, name |-> name, arguments |-> arguments]

\* buffer.split('\n')
RECURSIVE SplitNL(_)
SplitNL(b) ==
  IF \A i \in 1..Len(b) : b[i] # NL THEN <<b>>
  ELSE LET i == CHOOSE i \in 1..Len(b) : b[i] = NL /\ \A j \in 1..(i - 1) : b[j] # NL
       IN <<SubSeq(b, 1, i - 1)>> \o SplitNL(SubSeq(b, i + 1, Len(b)))

\* the lines the loop runs over, once lines.pop() took the last piece
Front(lines) == SubSeq(lines, 1, Len(lines) - 1)

\* variant: the piece after the last line feed is not kept
RemainderDropped(lines) == <<>>

\* buffer = lines.pop() || ''
Remainder(lines) == lines[Len(lines)]

\* line.trim()
RECURSIVE TrimSp(_)
TrimSp(t) ==
  IF Len(t) > 0 /\ t[1] = SP THEN TrimSp(Tail(t))
  ELSE IF Len(t) > 0 /\ t[Len(t)] = SP THEN TrimSp(SubSeq(t, 1, Len(t) - 1))
  ELSE t

\* trimmed.startsWith('data: ')
startsWithData(t) == Len(t) > 0 /\ t[1] = DATA

\* JSON.parse(data): white space around the value is allowed
JSONparse(data) ==
  LET d == TrimSp(data)
  IN IF Len(d) = 1 /\ d[1].k = "json" THEN d[1] ELSE Invalid

\* JSON.parse of an arguments string: the object's members, or the empty
\* object when the string is empty or does not parse
ParseArgs(arguments) ==
  IF Len(arguments) >= 2 /\ arguments[1] = "{" /\ arguments[Len(arguments)] = "}"
       /\ \A i \in 2..(Len(arguments) - 1) : arguments[i] \notin {"{", "}"}
  THEN {arguments[i] : i \in 2..(Len(arguments) - 1)}
  ELSE {}

\* variant: every delta is merged into the call of index 0
toolCallIndexZero(d) == 0

\* deltaToolCall.index ?? 0
toolCallIndex(d) == IF d.index = NoIndex THEN 0 ELSE d.index

\* `tool_${toolCallIndex}`
toolCallId(index) == [pre |-> "tool_", n |-> index]

\* the loop over delta.tool_calls; accumulatedToolCalls is kept as the list
\* of its values in insertion order, each with its key
RECURSIVE Accumulate(_, _)
Accumulate(acc, tcs) ==
  IF tcs = <<>> THEN acc
  ELSE LET deltaToolCall == Head(tcs)
           key == toolCallIndex(deltaToolCall)
           created == [key |-> key,
                       id |-> IF deltaToolCall.id # NoId THEN deltaToolCall.id
                              ELSE toolCallId(key),
                       name |-> <<>>, arguments |-> <<>>]
           acc1 == IF \E i \in 1..Len(acc) : acc[i].key = key THEN acc
                   ELSE Append(acc, created)
           at == CHOOSE i \in 1..Len(acc1) : acc1[i].key = key
           accumulated ==
             [acc1[at] EXCEPT
                !.name = IF deltaToolCall.name # <<>> THEN deltaToolCall.name ELSE @,
                !.arguments = @ \o deltaToolCall.arguments,
                !.id = IF deltaToolCall.id # NoId THEN deltaToolCall.id ELSE @]
       IN Accumulate([acc1 EXCEPT ![at] = accumulated], Tail(tcs))

\* variant: a call needs a name and arguments to be emitted
completedWithArguments(acc) ==
  SelectSeq(acc, LAMBDA c : c.name # <<>> /\ c.arguments # <<>>)

\* Array.from(accumulatedToolCalls.values()).filter((tc) => tc.function.name)
completedToolCalls(acc) == SelectSeq(acc, LAMBDA c : c.name # <<>>)

\* the fragments the decoder yields: the parts of the candidate's content
\* and, on the final one, the function calls
FunctionCall(name, args, id) == [name |-> name, args |-> args, id |-> id]
TextFragment(content) == [parts |-> <<Txt(content)>>, functionCalls |-> <<>>]
FinalFragment(completed) ==
  [parts |-> [j \in 1..Len(completed) |-> CallPart],
   functionCalls |-> [j \in 1..Len(completed) |->
      FunctionCall(completed[j].name, ParseArgs(completed[j].arguments), completed[j].id)]]
NoFragment == [parts |-> <<>>, functionCalls |-> <<>>]

\* variant: a record that carries tool-call deltas and no text is yielded at
\* once, with the calls accumulated so far
RECURSIVE RunLinesEager(_, _)
RunLinesEager(lines, acc) ==
  IF lines = <<>>
  THEN [stop |-> "read", lines |-> <<>>, acc |-> acc, fragment |-> NoFragment]
  ELSE LET trimmed == TrimSp(Head(lines))
           data == Tail(trimmed)
           parsed == JSONparse(data)
           acc1 == Accumulate(acc, parsed.tool_calls)
       IN IF ~startsWithData(trimmed) THEN RunLinesEager(Tail(lines), acc)
          ELSE IF data = <<DONE>>
          THEN IF Len(completedToolCalls(acc)) > 0
               THEN [stop |-> "final", lines |-> <<>>, acc |-> acc,
                     fragment |-> FinalFragment(completedToolCalls(acc))]
               ELSE [stop |-> "return", lines |-> <<>>, acc |-> acc,
                     fragment |-> NoFragment]
          ELSE IF parsed = Invalid THEN RunLinesEager(Tail(lines), acc)
          ELSE IF parsed.content # <<>>
          THEN [stop |-> "yield", lines |-> Tail(lines), acc |-> acc1,
                fragment |-> TextFragment(parsed.content)]
          ELSE IF Len(completedToolCalls(acc1)) > 0 /\ parsed.tool_calls # <<>>
          THEN [stop |-> "yield", lines |-> Tail(lines), acc |-> acc1,
                fragment |-> FinalFragment(completedToolCalls(acc1))]
          ELSE RunLinesEager(Tail(lines), acc1)

\* variant: a payload that does not parse ends the stream
RECURSIVE RunLinesAborting(_, _)
RunLinesAborting(lines, acc) ==
  IF lines = <<>>
  THEN [stop |-> "read", lines |-> <<>>, acc |-> acc, fragment |-> NoFragment]
  ELSE LET trimmed == TrimSp(Head(lines))
           data == Tail(trimmed)
           parsed == JSONparse(data)
           acc1 == Accumulate(acc, parsed.tool_calls)
       IN IF ~startsWithData(trimmed) THEN RunLinesAborting(Tail(lines), acc)
          ELSE IF data = <<DONE>>
          THEN IF Len(completedToolCalls(acc)) > 0
               THEN [stop |-> "final", lines |-> <<>>, acc |-> acc,
                     fragment |-> FinalFragment(completedToolCalls(acc))]
               ELSE [stop |-> "return", lines |-> <<>>, acc |-> acc,
                     fragment |-> NoFragment]
          ELSE IF parsed = Invalid
          THEN [stop |-> "return", lines |-> <<>>, acc |-> acc, fragment |-> NoFragment]
          ELSE IF parsed.content # <<>>
          THEN [stop |-> "yield", lines |-> Tail(lines), acc |-> acc1,
                fragment |-> TextFragment(parsed.content)]
          ELSE RunLinesAborting(Tail(lines), acc1)

\* the loop over the lines of one read, from the given line on: it runs to
\* the next yield ("yield": a text fragment; "final": the calls, at the
\* sentinel), to the return at the sentinel, or to the end of the lines
RECURSIVE RunLines(_, _)
RunLines(lines, acc) ==
  IF lines = <<>>
  THEN [stop |-> "read", lines |-> <<>>, acc |-> acc, fragment |-> NoFragment]
  ELSE LET trimmed == TrimSp(Head(lines))
           data == Tail(trimmed)
           parsed == JSONparse(data)
           acc1 == Accumulate(acc, parsed.tool_calls)
       IN IF ~startsWithData(trimmed) THEN RunLines(Tail(lines), acc)
          ELSE IF data = <<DONE>>
          THEN IF Len(completedToolCalls(acc)) > 0
               THEN [stop |-> "final", lines |-> <<>>, acc |-> acc,
                     fragment |-> FinalFragment(completedToolCalls(acc))]
               ELSE [stop |-> "return", lines |-> <<>>, acc |-> acc,
                     fragment |-> NoFragment]
          ELSE IF parsed = Invalid THEN RunLines(Tail(lines), acc)
          ELSE IF parsed.content # <<>>
          THEN [stop |-> "yield", lines |-> Tail(lines), acc |-> acc1,
                fragment |-> TextFragment(parsed.content)]
          ELSE RunLines(Tail(lines), acc1)

\* the fragments yielded when the whole body arrives in one read
RECURSIVE Fragments(_, _)
Fragments(lines, acc) ==
  LET r == RunLines(lines, acc)
  IN IF r.stop \in {"read", "return"} THEN <<>>
     ELSE IF r.stop = "final" THEN <<r.fragment>>
     ELSE <<r.fragment>> \o Fragments(r.lines, r.acc)

DecodeWhole(content) == Fragments(Front(SplitNL(content)), <<>>)

\* the records of a body, by payload, and what follows them: nothing, the
\* sentinel, or the sentinel and one more record
MaxRecs == 2
TX == Delta(<<"x">>, <<>>)
TZ == Delta(<<"z">>, <<>>)
DA == Delta(<<>>, <<ToolDelta(0, Id(1), <<"f">>, <<"{", "k">>)>>)
DB == Delta(<<>>, <<ToolDelta(0, Id(2), <<>>, <<"}">>), ToolDelta(1, NoId, <<>>, <<"{", "m">>)>>)
DC == Delta(<<"y">>, <<ToolDelta(NoIndex, NoId, <<"g">>, <<>>), ToolDelta(1, NoId, <<"g">>, <<"}">>)>>)
DD == Delta(<<>>, <<ToolDelta(0, NoId, <<"h">>, <<>>)>>)
RecPool == {TX, BAD, DA, DB, DC, DD}
Endings == {"none", "sentinel", "more"}

Line(payload) == IF payload = BAD THEN <<SP, DATA, payload, NL>> ELSE <<DATA, payload, NL>>

RECURSIVE LinesOf(_)
LinesOf(records) ==
  IF records = <<>> THEN <<>> ELSE Line(Head(records)) \o LinesOf(Tail(records))

EndingOf(ending) ==
  IF ending = "none" THEN <<>>
  ELSE IF ending = "sentinel" THEN <<NL, DATA, DONE, NL>>
  ELSE <<DATA, DONE, NL, DATA, TZ, NL>>

BodyOf(records, ending) == LinesOf(records) \o EndingOf(ending)

StreamInit ==
  /\ history = <<>>
  /\ tc = IdleTc
  /\ thrown = "none"
  /\ hung = FALSE
  /\ fac = IdleFac
  /\ dec = IdleDec
  /\ io = IdleIo

\* parseStreamResponse is called: the generator exists, its body has not
\* started.  wrapped: it is consumed by the recording wrapper's for await
parseStreamResponse(records, ending, hasBody, wrapped) ==
  /\ dec.pc = "idle"
  /\ dec' = [pc |-> "created", records |-> records, ending |-> ending,
             content |-> BodyOf(records, ending), hasBody |-> hasBody,
             wrapped |-> wrapped, rest |-> BodyOf(records, ending),
             buffer |-> <<>>, lines |-> <<>>, acc |-> <<>>, yielded |-> <<>>,
             acquired |-> FALSE, released |-> 0, exit |-> "none",
             atSentinel |-> FALSE, partial |-> FALSE]
  /\ UNCHANGED <<history, tc, thrown, hung, fac, io>>

\* the finally block: reader.releaseLock()
Finally(d, exit) == [d EXCEPT !.pc = "done", !.exit = exit, !.released = @ + 1]

\* the loop over the lines goes on from the line after the last yield
Continue(d, lines) ==
  LET r == RunLines(lines, d.acc)
  IN IF r.stop = "read" THEN [d EXCEPT !.pc = "reading", !.lines = <<>>, !.acc = r.acc]
     ELSE IF r.stop = "return"
     THEN Finally([d EXCEPT !.lines = <<>>, !.acc = r.acc], "sentinel")
     ELSE [d EXCEPT !.pc = "suspended", !.lines = r.lines, !.acc = r.acc,
                    !.yielded = Append(@, r.fragment),
                    !.atSentinel = (r.stop = "final")]

\* the consumer asks for the next fragment: the body starts (the reader is
\* acquired, or there is no body to read), or goes on after a yield
Resume ==
  /\ dec.pc \in {"created", "suspended"}
  /\ dec' = IF dec.pc = "created"
            THEN IF dec.hasBody THEN [dec EXCEPT !.pc = "reading", !.acquired = TRUE]
                 ELSE [dec EXCEPT !.pc = "done", !.exit = "nobody"]
            ELSE IF dec.atSentinel THEN Finally(dec, "sentinel")
            ELSE Continue(dec, dec.lines)
  /\ UNCHANGED <<history, tc, thrown, hung, fac, io>>

\* reader.read() settles with the next n symbols of the body, or with done
\* when none is left
ReadSettled(n) ==
  /\ dec.pc = "reading"
  /\ IF dec.rest = <<>> THEN n = 0 ELSE n \in 1..Len(dec.rest)
  /\ dec' = IF n = 0 THEN Finally(dec, "end")
            ELSE LET lines == SplitNL(dec.buffer \o SubSeq(dec.rest, 1, n))
                     d == [dec EXCEPT !.rest = SubSeq(@, n + 1, Len(@)),
                                      !.buffer = Remainder(lines),
                                      !.partial = @ \/ lines[Len(lines)] # <<>>]
                 IN Continue(d, Front(lines))
  /\ UNCHANGED <<history, tc, thrown, hung, fac, io>>

\* reader.read() rejects
ReadFailed ==
  /\ dec.pc = "reading"
  /\ dec' = Finally(dec, "error")
  /\ UNCHANGED <<history, tc, thrown, hung, fac, io>>

\* variant: leaving the wrapper's loop does not close the decoder
AbandonUnclosed ==
  /\ dec.pc \in {"created", "suspended"}
  /\ dec' = IF dec.pc = "created" \/ dec.wrapped
            THEN [dec EXCEPT !.pc = "done", !.exit = "abandoned"]
            ELSE Finally(dec, "abandoned")
  /\ UNCHANGED <<history, tc, thrown, hung, fac, io>>

\* the consumer stops iterating: return() on a generator that has not
\* started ends it without running its body; at a yield it runs the finally
\* block.  The wrapper's for await calls the decoder's return() when the
\* wrapper itself is left at its yield
Abandon ==
  /\ dec.pc \in {"created", "suspended"}
  /\ dec' = IF dec.pc = "created"
            THEN [dec EXCEPT !.pc = "done", !.exit = "abandoned"]
            ELSE Finally(dec, "abandoned")
  /\ UNCHANGED <<history, tc, thrown, hung, fac, io>>

\* the sizes the pending read may have
ReadSizes == IF dec.pc = "reading" THEN 0..Len(dec.rest) ELSE {}

DecoderNext ==
  \/ \E rs \in SeqsUpTo(RecPool, MaxRecs), e \in Endings, hb \in BOOLEAN, w \in BOOLEAN :
        /\ (~hb => (rs = <<>> /\ e = "none" /\ ~w))
        /\ parseStreamResponse(rs, e, hb, w)
  \/ Resume
  \/ \E n \in ReadSizes : ReadSettled(n)
  \/ ReadFailed
  \/ Abandon

StreamSpec == StreamInit /\ [][DecoderNext]_vars

(***************************************************************************)
(* The tool calls of a complete response: convertToGeminiResponse and      *)
(* convertOpenAIToolCallsToGemini build the same function call from each   *)
(* entry of choices[0].message.tool_calls                                  *)
(***************************************************************************)
MaxCalls == 2     \* longest tool_calls list of a complete response

UnknownFunction == <<"unknown_function">>

\* name || 'unknown_function', the parsed arguments or {}, and
\* id || `tool_${toolCall.index || 0}`
functionCallOf(toolCall) ==
  FunctionCall(IF toolCall.name # <<>> THEN toolCall.name ELSE UnknownFunction,
               ParseArgs(toolCall.arguments),
               IF toolCall.id # NoId THEN toolCall.id
               ELSE toolCallId(IF toolCall.index = NoIndex THEN 0 ELSE toolCall.index))

\* choice.message.tool_calls.map(...)
functionCallsOf(toolCalls) == [j \in 1..Len(toolCalls) |-> functionCallOf(toolCalls[j])]

\* entries of tool_calls: with or without id, index, name, and with no
\* arguments, arguments that do not parse, arguments that do
WireCalls ==
  {ToolDelta(index, id, name, arguments) :
     index \in {NoIndex, 1}, id \in {NoId, Id(1)}, name \in {<<>>, <<"f">>},
     arguments \in {<<>>, <<"{", "k">>, <<"{", "k", "}">>}}

ToolCallInit ==
  /\ history = <<>>
  /\ tc = IdleTc
  /\ thrown = "none"
  /\ hung = FALSE
  /\ fac = IdleFac
  /\ dec = IdleDec
  /\ io = IdleIo

\* the function calls of a response whose message carries the tool calls
callFunctionCalls(toolCalls) ==
  /\ io.op = "none"
  /\ io' = [op |-> "functionCalls", arg |-> toolCalls, res |-> functionCallsOf(toolCalls)]
  /\ UNCHANGED <<history, tc, thrown, hung, fac, dec>>

ToolCallNext == \E tcs \in SeqsUpTo(WireCalls, MaxCalls) : callFunctionCalls(tcs)

ToolCallSpec == ToolCallInit /\ [][ToolCallNext]_vars

\* ---------------------------------------------------------------------
\* Two requests in flight on one conversation object. tryCompress finds
\* nothing to compress, so a request touches History only when it records:
\* generateContent after its response is translated, the wrapper of
\* generateContentStream after the stream ended. io holds the History the
\* conversation started with, the order the requests were sent in and the
\* two requests.
MaxChunks == 2
PairContents == {<<U1>>, <<U2>>}
ChunkParts == {Txt(<<"b">>), Txt(<<"d">>)}
IdleRequest == [pc |-> "idle", contents |-> <<>>, stream |-> FALSE, parts |-> <<>>]

PairInit ==
  /\ history \in {<<>>, <<U1, MT>>}
  /\ tc = IdleTc
  /\ thrown = "none"
  /\ hung = FALSE
  /\ fac = IdleFac
  /\ dec = IdleDec
  /\ io = [op |-> "pair", initial |-> history, sent |-> <<>>,
           reqs |-> <<IdleRequest, IdleRequest>>]

\* variant: the user input is appended to History when the request is sent
SendRecording(i, contents, stream) ==
  /\ io.op = "pair"
  /\ io.reqs[i].pc = "idle"
  /\ io' = [io EXCEPT !.sent = Append(@, i),
                      !.reqs[i] = [pc |-> "flight", contents |-> contents,
                                   stream |-> stream, parts |-> <<>>]]
  /\ history' = Append(history, userInputOf(contents))
  /\ UNCHANGED <<tc, thrown, hung, fac, dec>>

\* generateContent / generateContentStream up to the await of the response
Send(i, contents, stream) ==
  /\ io.op = "pair"
  /\ io.reqs[i].pc = "idle"
  /\ io' = [io EXCEPT !.sent = Append(@, i),
                      !.reqs[i] = [pc |-> "flight", contents |-> contents,
                                   stream |-> stream, parts |-> <<>>]]
  /\ UNCHANGED <<history, tc, thrown, hung, fac, dec>>

\* the complete response arrived: its text is translated and the exchange
\* recorded by one call of recordHistory
Respond(i, part) ==
  /\ io.op = "pair"
  /\ io.reqs[i].pc = "flight"
  /\ ~io.reqs[i].stream
  /\ history' = RecordedHistory(history, userInputOf(io.reqs[i].contents),
                                <<Turn("model", <<part>>)>>, <<>>)
  /\ io' = [io EXCEPT !.reqs[i].pc = "done", !.reqs[i].parts = <<part>>]
  /\ UNCHANGED <<tc, thrown, hung, fac, dec>>

\* the wrapper takes a fragment of the stream: its parts are collected
Chunk(i, part) ==
  /\ io.op = "pair"
  /\ io.reqs[i].pc = "flight"
  /\ io.reqs[i].stream
  /\ Len(io.reqs[i].parts) < MaxChunks
  /\ io' = [io EXCEPT !.reqs[i].parts = Append(@, part)]
  /\ UNCHANGED <<history, tc, thrown, hung, fac, dec>>

\* the stream ended: the exchange is recorded by one call of recordHistory
\* when a fragment was seen
StreamEnd(i) ==
  /\ io.op = "pair"
  /\ io.reqs[i].pc = "flight"
  /\ io.reqs[i].stream
  /\ history' = IF Len(io.reqs[i].parts) > 0
                THEN RecordedHistory(history, userInputOf(io.reqs[i].contents),
                                     streamOutputOf(io.reqs[i].parts), <<>>)
                ELSE history
  /\ io' = [io EXCEPT !.reqs[i].pc = "done"]
  /\ UNCHANGED <<tc, thrown, hung, fac, dec>>

PairNext ==
  \E i \in 1..2 :
     \/ \E contents \in PairContents, stream \in BOOLEAN : Send(i, contents, stream)
     \/ \E part \in ChunkParts : Respond(i, part)
     \/ \E part \in ChunkParts : Chunk(i, part)
     \/ StreamEnd(i)

PairSpec == PairInit /\ [][PairNext]_vars

\* the claim's turns: text fragments only, each text non-empty and holding
\* whitespace
HasSpace(t) == \E i \in 1..Len(t) : IsSpace(t[i])

OnlyWhitespaceTexts(T) ==
  /\ Len(T.parts) > 0
  /\ \A j \in 1..Len(T.parts) :
        /\ T.parts[j].k = "text"
        /\ T.parts[j].text # <<>>
        /\ HasSpace(T.parts[j].text)

\* C15: for every turn of text fragments with non-empty, whitespace-holding
\* text, translating the turn to a wire message and that message back gives a
\* turn whose text content (the fragments' texts, newline-joined) is the
\* original's.
C15_RoundTrip ==
  (io.op = "roundTrip" /\ OnlyWhitespaceTexts(io.arg)) =>
    /\ io.res.role # "nomessage"
    /\ JoinTexts(io.res.parts) = JoinTexts(io.arg.parts)

\* C11: whenever compression runs (the summary request has been issued), the
\* final cut index is either the length of the curated history or the index
\* of a user-role turn that is not a function response: the preserved tail
\* never starts with a model turn or a tool-result turn.
C11_CutAtUserTurn ==
  tc.gen = 1 =>
    LET cur == extractCuratedHistory(tc.before)
    IN /\ tc.cut \in 0..Len(cur)
       /\ tc.cut < Len(cur) =>
            /\ cur[tc.cut + 1].role = "user"
            /\ ~isFunctionResponse(cur[tc.cut + 1])

\* the loop moved the index past a function response onto a plain user turn
C11_Witness ==
  /\ tc.gen = 1
  /\ LET cur == extractCuratedHistory(tc.before)
         idx == findIndexAfterFraction(cur, tc.fraction)
     IN /\ idx # FractionError
        /\ idx < tc.cut
        /\ tc.cut < Len(cur)
        /\ isFunctionResponse(cur[idx + 1])

\* C20: the optimizer returns the selected messages in original chronological
\* order: of any two returned messages, a truncated one included, the one
\* whose original stood earlier in the input list comes first.
C20_ChronologicalOrder ==
  (io.op = "optimize" /\ io.res.kind = "ok") =>
    \A i, j \in 1..Len(io.res.optimized) :
       i < j => io.res.optimized[i].src < io.res.optimized[j].src

\* the first answer of the request in flight has arrived, and is non-2xx
FirstAnswered == fac.pc \in {"retry", "stream", "done"}

BudgetErrorFirst ==
  /\ FirstAnswered
  /\ fac.first.kind = "http"
  /\ isTokenLimitError(fac.first.status, fac.first.body)

\* C12 as stated: whenever the first answer to a facade request is non-2xx and
\* classified as a token-limit error, exactly one retry is sent, with the
\* optimizer's output for the original messages under floor(0.7 * maxTokens).
C12_RetryAsStated ==
  BudgetErrorFirst =>
    /\ Len(fac.sent) = 2
    /\ fac.sent[2] = MessagesOf(optimizeMessages(fac.originalMessages,
                                                 (fac.maxTokens * 7) \div 10, fac.tools))

\* C12 amended: after a token-limit first answer the retry is sent exactly
\* when the messages first sent are as many as the messages built and the
\* optimizer under floor(0.7 * maxTokens) succeeds with at least one message;
\* it is sent once, with that optimizer output; otherwise no retry is sent and
\* the first answer's error is surfaced.
C12_Retry ==
  BudgetErrorFirst =>
    LET r == optimizeMessages(fac.originalMessages, (fac.maxTokens * 7) \div 10, fac.tools)
        eligible == /\ Len(fac.messages) = Len(fac.originalMessages)
                    /\ r.kind = "ok"
                    /\ Len(r.optimized) > 0
    IN /\ Len(fac.sent) = (IF eligible THEN 2 ELSE 1)
       /\ eligible => fac.sent[2] = MessagesOf(r)
       /\ ~eligible => (fac.pc = "done" /\ fac.outcome = "threw" /\ fac.error = "first")

\* a retry went out whose messages differ from the ones first sent
C12_Witness ==
  /\ BudgetErrorFirst
  /\ Len(fac.sent) = 2
  /\ fac.sent[2] # fac.sent[1]
  /\ Len(fac.sent[2]) < Len(fac.sent[1])

\* the retry of the request in flight has failed
RetryFailed ==
  /\ fac.pc = "done"
  /\ Len(fac.sent) = 2
  /\ \/ fac.retry.kind \in {"reject", "http"}
     \/ (~fac.stream /\ fac.retry.body \in {"badjson", "nochoices"})

\* C13: for one facade request at most two transport requests are sent; a
\* non-2xx answer not classified as a budget error is never retried; and when
\* the retry fails too, the error surfaced is the first answer's error.
C13_AtMostOneRetry ==
  fac.pc # "idle" =>
    /\ Len(fac.sent) <= 2
    /\ (FirstAnswered /\ fac.first.kind = "http"
          /\ ~isTokenLimitError(fac.first.status, fac.first.body)) =>
         (Len(fac.sent) = 1 /\ fac.outcome = "threw" /\ fac.error = "first")
    /\ RetryFailed => (fac.outcome = "threw" /\ fac.error = "first")

C13_Witness ==
  /\ fac.pc # "idle"
  /\ RetryFailed
  /\ fac.retry.kind = "http"
  /\ isTokenLimitError(fac.retry.status, fac.retry.body)
  /\ fac.error = "first"

\* C14: every facade request that obtains a successful model response (a
\* complete answer returned, or a streamed answer of at least one fragment
\* consumed to its end) has recorded the turn exactly once, whether the first
\* attempt or the budget retry succeeded.
C14_RecordedOnce ==
  (/\ fac.pc = "done"
   /\ \/ (~fac.stream /\ fac.outcome = "returned")
      \/ (fac.stream /\ fac.outcome = "consumed" /\ fac.yielded > 0)) =>
    /\ fac.records = 1
    /\ history = RecordedHistory(fac.built, userInputOf(fac.contents), fac.recorded, <<>>)

\* the decoder ran to the end of the body or to the sentinel
RanToEnd == dec.pc = "done" /\ dec.exit \in {"end", "sentinel"}

IsPrefix(s, t) == Len(s) <= Len(t) /\ s = SubSeq(t, 1, Len(s))

\* C16: the fragments the streaming decoder yields depend only on the
\* concatenated body, not on how the transport splits it into reads: however
\* a newline-terminated body is split, a record's middle included, the
\* fragments yielded so far are a prefix of, and at the end are, the
\* fragments of the body read at once.
C16_SplitIndependent ==
  dec.pc # "idle" =>
    /\ IsPrefix(dec.yielded, DecodeWhole(dec.content))
    /\ RanToEnd => dec.yielded = DecodeWhole(dec.content)

\* a body whose reads ended inside records, decoded to a text fragment and
\* the final calls
C16_Witness ==
  /\ RanToEnd
  /\ dec.partial
  /\ Len(dec.yielded) > 1
  /\ dec.yielded[Len(dec.yielded)].functionCalls # <<>>

\* the tool-call deltas of the records before the sentinel, in arrival order
RECURSIVE DeltasOf(_)
DeltasOf(records) ==
  IF records = <<>> THEN <<>>
  ELSE (IF Head(records).k = "json" THEN Head(records).tool_calls ELSE <<>>)
         \o DeltasOf(Tail(records))

\* the index a delta is delivered with: a delta without one counts as 0
IndexOf(d) == IF d.index = NoIndex THEN 0 ELSE d.index

DeltasFor(i) == SelectSeq(DeltasOf(dec.records), LAMBDA d : IndexOf(d) = i)

RECURSIVE Pieces(_)
Pieces(ds) == IF ds = <<>> THEN <<>> ELSE Head(ds).arguments \o Pieces(Tail(ds))

LastId(ds, i) ==
  LET withId == SelectSeq(ds, LAMBDA d : d.id # NoId)
  IN IF withId = <<>> THEN [pre |-> "tool_", n |-> i] ELSE withId[Len(withId)].id

Named(ds) == \E j \in 1..Len(ds) : ds[j].name # <<>>

\* the indexes in the order of their first delta
RECURSIVE IndexOrder(_, _)
IndexOrder(ds, seen) ==
  IF ds = <<>> THEN <<>>
  ELSE IF IndexOf(Head(ds)) \in seen THEN IndexOrder(Tail(ds), seen)
  ELSE <<IndexOf(Head(ds))>> \o IndexOrder(Tail(ds), seen \cup {IndexOf(Head(ds))})

\* the calls emitted at the sentinel
EmittedCalls ==
  IF Len(dec.yielded) > 0 /\ dec.yielded[Len(dec.yielded)].functionCalls # <<>>
  THEN dec.yielded[Len(dec.yielded)].functionCalls
  ELSE <<>>

SentinelRead == dec.pc = "done" /\ dec.exit = "sentinel"

\* the emitted calls are those of the given indexes, one each and in that
\* order, each with the index's argument pieces concatenated in arrival
\* order and parsed, and the last id delivered for the index
CallsAre(indexes) ==
  /\ Len(EmittedCalls) = Len(indexes)
  /\ \A j \in 1..Len(indexes) :
       LET ds == DeltasFor(indexes[j])
       IN /\ EmittedCalls[j].args = ParseArgs(Pieces(ds))
          /\ EmittedCalls[j].id = LastId(ds, indexes[j])

\* C17 as stated: for any tool-call deltas followed by the sentinel, every
\* index that received deltas produces exactly one emitted call, carrying the
\* concatenation in arrival order of the index's argument pieces (parsed, or
\* an empty object) and the last id delivered for the index (a synthesized
\* one when none was).
C17_AsStated ==
  SentinelRead => CallsAre(IndexOrder(DeltasOf(dec.records), {}))

\* C17: for any tool-call deltas followed by the sentinel, every index for
\* which some delta delivered a non-empty name (a delta without an index
\* counting as index 0) produces exactly one emitted call, carrying the
\* concatenation in arrival order of the index's argument pieces (parsed, or
\* an empty object) and the last id delivered for the index (a synthesized
\* one when none was); no other call is emitted and the pieces of different
\* indexes are never mixed.
C17_Accumulation ==
  SentinelRead =>
    CallsAre(SelectSeq(IndexOrder(DeltasOf(dec.records), {}),
                       LAMBDA i : Named(DeltasFor(i))))

\* index 0 got its name and id in one delta and the rest of its arguments,
\* with a later id, in the next, which also fed index 1
C17_Witness ==
  /\ SentinelRead
  /\ dec.records = <<DA, DB>>
  /\ Len(EmittedCalls) = 1
  /\ EmittedCalls[1].args = {"k"}
  /\ EmittedCalls[1].id = Id(2)

\* C18: on reading the sentinel the decoder emits, if some accumulated call
\* has a non-empty name, exactly one final fragment holding all named calls
\* (those with empty arguments included, the nameless omitted) and then
\* terminates; with no named call it terminates without a final fragment;
\* nothing is yielded for the data after the sentinel.
C18_Sentinel ==
  SentinelRead =>
    LET named == {i \in 1..Len(dec.acc) : dec.acc[i].name # <<>>}
        finals == {i \in 1..Len(dec.yielded) : dec.yielded[i].functionCalls # <<>>}
        texts == {i \in 1..Len(dec.records) :
                    dec.records[i].k = "json" /\ dec.records[i].content # <<>>}
    IN /\ named # {} =>
            /\ finals = {Len(dec.yielded)}
            /\ Len(EmittedCalls) = Cardinality(named)
            /\ \A i \in named : \E j \in 1..Len(EmittedCalls) :
                  /\ EmittedCalls[j].name = dec.acc[i].name
                  /\ EmittedCalls[j].id = dec.acc[i].id
       /\ named = {} => finals = {}
       /\ Len(dec.yielded) = Cardinality(texts) + Cardinality(finals)
       /\ \A i \in 1..Len(dec.yielded) : dec.yielded[i] # TextFragment(<<"z">>)

\* the sentinel was read with a record after it, a named call and a nameless
\* one accumulated
C18_Witness ==
  /\ SentinelRead
  /\ dec.ending = "more"
  /\ \E i \in 1..Len(dec.acc) : dec.acc[i].name = <<>>
  /\ Len(EmittedCalls) > 0
  /\ dec.rest = <<>>

\* C19: once the decoder has acquired the reader, the reader is released on
\* every exit path: the end of the input, the sentinel, an error raised by a
\* read, and the consumer abandoning the iteration, directly or through the
\* recording wrapper.
C19_ReaderReleased ==
  (dec.pc = "done" /\ dec.acquired) =>
    /\ dec.exit \in {"end", "sentinel", "error", "abandoned"}
    /\ dec.released = 1

\* the consumer of the recording wrapper stopped after a fragment
C19_Witness ==
  /\ dec.pc = "done"
  /\ dec.exit = "abandoned"
  /\ dec.wrapped
  /\ dec.acquired
  /\ Len(dec.yielded) > 0
  /\ dec.released = 1

\* C21: whenever the optimizer returns, the estimated token costs of the
\* returned messages sum to no more than available = min(requestedMax,
\* modelLimit) - reserveTokens - toolTokens, truncated messages and
\* tool-call messages with null content included.
C21_WithinBudget ==
  (io.op = "optimize" /\ io.res.kind = "ok") =>
    TokensOf(MessagesOf(io.res)) <= io.res.availableTokens

\* available = min(requestedMax, modelLimit) - reserveTokens - toolTokens
BudgetLeft(maxTokens, tools) ==
  (IF maxTokens < ModelMaxTokens THEN maxTokens ELSE ModelMaxTokens)
    - ReserveTokens - ToolTokens(tools, Len(tools))

\* the request in flight has built its messages and nothing is left of its
\* budget once the tool and output tokens are reserved
BudgetExhausted ==
  /\ fac.pc \in {"fetch", "retry", "stream", "done"}
  /\ BudgetLeft(fac.maxTokens, fac.tools) <= 0

\* C22 as stated: when available <= 0 after reserving tool and output
\* tokens, the facade request fails and no transport request is sent for it.
C22_AsStated ==
  BudgetExhausted =>
    /\ Len(fac.sent) = 0
    /\ fac.pc = "done"
    /\ fac.outcome = "threw"

\* C22: when available <= 0 after reserving tool and output tokens, the
\* optimizer fails, the facade catches the failure and sends the transport
\* request with the original, unoptimized messages; no retry follows, and
\* the request ends as the answer to that one request decides.
C22_BudgetExhaustedSent ==
  BudgetExhausted =>
    /\ fac.sent = <<fac.originalMessages>>
    /\ fac.pc = "done" =>
         \/ fac.outcome \in {"returned", "consumed", "abandoned", "streamerror"}
            /\ fac.first.kind = "ok"
         \/ fac.outcome = "threw" /\ fac.error \in {"network", "first", "json", "nochoices"}
            /\ (fac.error \in {"json", "nochoices"} <=> fac.first.kind = "ok")

\* a request with nothing left of its budget was sent and answered
C22_Witness ==
  /\ BudgetExhausted
  /\ fac.pc = "done"
  /\ fac.outcome = "returned"
  /\ Len(fac.sent[1]) > 0
  /\ fac.records = 1

\* C23: telemetry emission never throws into the calling path: when the
\* emission of the API-error event fails, the facade still surfaces to its
\* caller exactly the backend or transport error it would have surfaced had
\* the emission succeeded.
C23_TelemetryNeverThrows ==
  (fac.pc = "done" /\ fac.outcome = "threw") => fac.error = fac.raised

\* the request in flight is past a tryCompress that threw
CompressionFailed ==
  /\ fac.pc \in {"fetch", "retry", "stream", "done"}
  /\ fac.compression = "threw"

\* C24: a compression failure inside generateContent or
\* generateContentStream never surfaces to the caller of the generation: the
\* request goes on to build and send its messages from the uncompressed
\* History, which the failed compression left unchanged.
C24_CompressionFailureContained ==
  CompressionFailed =>
    /\ fac.built = fac.before
    /\ fac.originalMessages = buildMessages(fac.before, fac.contents)
    /\ Len(fac.sent) >= 1
    /\ fac.sent[1] = firstMessages(fac.originalMessages, fac.maxTokens, fac.tools)
    /\ fac.raised # "compression"

\* a request whose compression threw was sent and answered
C24_Witness ==
  /\ CompressionFailed
  /\ Len(fac.before) > 0
  /\ fac.pc = "done"
  /\ fac.outcome = "returned"

\* C25: every wire message the translator produces has content null exactly
\* when it carries only tool calls: a message with null content has at least
\* one tool call, a message with no tool call has non-empty content (never
\* the empty text), and no message has neither content nor tool calls.
WireWellFormed(m) ==
  /\ m.content # <<>>
  /\ m.content = Null => Len(m.tool_calls) > 0
  /\ Len(m.tool_calls) = 0 => (Truthy(m.content) /\ Trim(m.content) = m.content)

C25_ContentNullIffOnlyCalls ==
  io.op = "roundTrip" => \A i \in 1..Len(io.wire) : WireWellFormed(io.wire[i])

\* a turn that carries only a function call became a message with null
\* content and one tool call
C25_Witness ==
  /\ io.op = "roundTrip"
  /\ io.arg = MC
  /\ Len(io.wire) = 1
  /\ io.wire[1].content = Null
  /\ Len(io.wire[1].tool_calls) = 1

\* C26: when the facade is the generator of its own manager and a request
\* finds the curated history at or over the compression threshold, the
\* compression it triggers issues one summary generation call and no more,
\* and exactly one by the time the request has completed.
C26_OneSummaryCall ==
  (fac.pc \in {"count", "fetch", "done"} /\ fac.over) =>
    /\ fac.secondary <= 1
    /\ fac.pc = "done" => fac.secondary = 1

\* C26, the other half: such a request never gets to send anything, at any
\* depth, so it never completes
C26_OverNeverSends ==
  (fac.pc \in {"count", "fetch", "done"} /\ fac.over) => fac.pc = "count"

\* a model output all of whose fragments are thoughts
ThoughtOnly(c) ==
  /\ c.role = "model"
  /\ Len(c.parts) > 0
  /\ \A j \in 1..Len(c.parts) : c.parts[j].k = "thought"

Recorded == io.op = "recordHistory" /\ ~hung

AllThoughtOnly(m) == Len(m) > 0 /\ \A j \in 1..Len(m) : ThoughtOnly(m[j])
SomeThoughtOnly(m) == \E j \in 1..Len(m) : ThoughtOnly(m[j])
WithoutThoughtOnly(m) == SelectSeq(m, LAMBDA c : ~ThoughtOnly(c))

RecordedInput(h, userInput, afc) ==
  IF Len(afc) > 0 THEN h \o extractCuratedHistory(afc) ELSE Append(h, userInput)

EmptyTurnFor(userInput) == IF isFunctionResponse(userInput) THEN <<>> ELSE <<MZ>>

\* C28, as stated: recordHistory called with an empty model-output list
\* appends the user input followed by exactly one model turn with an empty
\* fragment list when the user input is not a tool result, and the user
\* input alone when it is one.
C28_AsStated ==
  (Recorded /\ io.modelOutput = <<>>) =>
    history = Append(io.before, io.userInput) \o EmptyTurnFor(io.userInput)

\* C28, amended: recordHistory called with an empty model-output list
\* appends the user input, or the curated external function-calling history
\* when one is supplied, followed by exactly one model turn with an empty
\* fragment list when the user input is not a tool result, and by nothing
\* when it is one.
C28_EmptyOutput ==
  (Recorded /\ io.modelOutput = <<>>) =>
    history = RecordedInput(io.before, io.userInput, io.afc) \o EmptyTurnFor(io.userInput)

\* an empty output list was recorded with a user text as the input: the
\* text and one model turn without fragments were added
C28_Witness ==
  /\ Recorded
  /\ io.modelOutput = <<>>
  /\ io.afc = <<>>
  /\ io.userInput = U1
  /\ io.before = <<UR>>
  /\ history = <<UR, U1, MZ>>

\* C29: History is append-only under addHistory and recordHistory: the
\* History before a call of either is an unchanged prefix of the History
\* after it, no entry it held being removed, reordered or modified.
C29_AppendOnly ==
  (io.op \in {"addHistory", "recordHistory"} /\ ~hung) =>
    /\ IsPrefix(io.before, history)
    /\ io.op = "addHistory" => history = Append(io.before, io.userInput)

\* a text output was recorded on a History that ends with a model text, with
\* an external history that curates to nothing: the output is a new entry
C29_Witness ==
  /\ Recorded
  /\ io.before = <<U1, MT>>
  /\ io.afc = <<ME>>
  /\ io.modelOutput = <<MT>>
  /\ history = <<U1, MT, MT>>

\* the indexes for which some delta delivered a non-empty name, in the order
\* of their first delta
NamedIndexes ==
  SelectSeq(IndexOrder(DeltasOf(dec.records), {}), LAMBDA i : Named(DeltasFor(i)))

\* the first non-empty name among the deltas
FirstName(ds) == SelectSeq(ds, LAMBDA d : d.name # <<>>)[1].name

\* C30: the name of the call the streaming decoder emits for an index is the
\* first non-empty name delivered for that index: a later delta carrying a
\* different non-empty name for the same index does not replace it.
C30_FirstNameWins ==
  SentinelRead =>
    /\ Len(EmittedCalls) = Len(NamedIndexes)
    /\ \A j \in 1..Len(NamedIndexes) :
         EmittedCalls[j].name = FirstName(DeltasFor(NamedIndexes[j]))

\* the records whose payload parses
WellFormed(records) == SelectSeq(records, LAMBDA r : r # BAD)

\* the accumulated tool calls when the lines have been run through
RECURSIVE AccumulatedOver(_, _)
AccumulatedOver(lines, acc) ==
  LET r == RunLines(lines, acc)
  IN IF r.stop = "yield" THEN AccumulatedOver(r.lines, r.acc) ELSE r.acc

\* C31: a data record whose payload is not valid JSON is skipped locally:
\* it yields no fragment, does not abort the stream, leaves the accumulated
\* tool calls unchanged, and every later record is processed as if the
\* malformed record had not been there: the fragments yielded and the calls
\* accumulated are those of the body without its malformed records.
C31_MalformedSkipped ==
  (RanToEnd /\ \E i \in 1..Len(dec.records) : dec.records[i] = BAD) =>
    LET without == BodyOf(WellFormed(dec.records), dec.ending)
    IN /\ dec.yielded = DecodeWhole(without)
       /\ dec.acc = AccumulatedOver(Front(SplitNL(without)), <<>>)

\* a malformed record came before a record with a text and tool-call
\* deltas: the text was yielded and the calls emitted at the sentinel
C31_Witness ==
  /\ SentinelRead
  /\ dec.records = <<BAD, DC>>
  /\ Len(dec.yielded) = 2
  /\ dec.yielded[1] = TextFragment(<<"y">>)
  /\ Len(EmittedCalls) = 2

\* the payloads among symbols, and among the lines of a read
Payloads(symbols) ==
  Cardinality({i \in 1..Len(symbols) : symbols[i].k \in {"json", BAD.k}})

RECURSIVE PayloadsIn(_)
PayloadsIn(lines) ==
  IF lines = <<>> THEN 0 ELSE Payloads(Head(lines)) + PayloadsIn(Tail(lines))

\* the sentinel has been read
SentinelSeen == dec.atSentinel \/ (dec.pc = "done" /\ dec.exit = "sentinel")

\* the records the loop over the lines has consumed: all of them once the
\* sentinel is read, else those no longer in the lines left of the current
\* read, the buffer or the unread rest of the body
Consumed ==
  IF SentinelSeen THEN dec.records
  ELSE LET after == IF dec.ending = "more" THEN 1 ELSE 0
           left == PayloadsIn(dec.lines) + Payloads(dec.buffer) + Payloads(dec.rest)
       IN SubSeq(dec.records, 1, Len(dec.records) + after - left)

\* one text fragment for each record that carries a non-empty text, in order
RECURSIVE TextsOf(_)
TextsOf(records) ==
  IF records = <<>> THEN <<>>
  ELSE (IF Head(records).k = "json" /\ Head(records).content # <<>>
        THEN <<TextFragment(Head(records).content)>> ELSE <<>>)
         \o TextsOf(Tail(records))

\* C32: each record carrying a non-empty text delta causes exactly one text
\* fragment to be yielded, in stream order and before any later record is
\* consumed: at every moment the text fragments yielded are those of the
\* records consumed; tool-call deltas cause no fragment to be yielded before
\* the sentinel is read: a fragment with calls is the last and the sentinel
\* has been read.
C32_TextAtOnceCallsAtSentinel ==
  dec.pc \notin {"idle", "created"} =>
    /\ SelectSeq(dec.yielded, LAMBDA f : f.functionCalls = <<>>) = TextsOf(Consumed)
    /\ \A i \in 1..Len(dec.yielded) :
         dec.yielded[i].functionCalls # <<>> => (i = Len(dec.yielded) /\ SentinelSeen)

\* the decoder is suspended at the yield of the first record's text while
\* the second record, a tool-call delta already read, waits in the lines
C32_Witness ==
  /\ dec.pc = "suspended"
  /\ dec.records = <<DC, DA>>
  /\ dec.yielded = <<TextFragment(<<"y">>)>>
  /\ PayloadsIn(dec.lines) = 1
  /\ Consumed = <<DC>>

\* the complete answer a returned request translated
AnswerReturned == IF fac.retry.kind = "ok" THEN fac.retry ELSE fac.first

\* the text after the closing marker of the reasoning segment, trimmed
AnswerText(content) == Trim(SubSeq(content, IndexOfThink(content, 1) + 1, Len(content)))

\* a complete response whose content is a reasoning segment, the closing
\* marker and a non-empty answer text
ReasonedAnswer ==
  /\ fac.pc = "done"
  /\ ~fac.stream
  /\ fac.outcome = "returned"
  /\ Truthy(AnswerReturned.message.content)
  /\ IndexOfThink(AnswerReturned.message.content, 1) > 0
  /\ AnswerText(AnswerReturned.message.content) # <<>>

\* C33: when a non-streamed response's content holds a reasoning segment
\* closed by the marker and followed by non-empty answer text, the reasoning
\* is stripped and the answer kept as a text fragment: after the request
\* History holds, right after the recorded user input, a model turn that
\* carries the answer text.
C33_AnswerRecorded ==
  ReasonedAnswer =>
    LET n == Len(fac.built)
    IN /\ Len(history) = n + 2
       /\ history[n + 1] = userInputOf(fac.contents)
       /\ history[n + 2] = Turn("model", <<Txt(AnswerText(AnswerReturned.message.content))>>)

\* C34: translating a complete response never fails on tool-call data: every
\* tool call gives a function call; unparsable arguments give an empty
\* arguments object, a missing name gives "unknown_function", and a missing
\* id is synthesized from the call's position in the list, so that two
\* id-less calls of one response receive different ids.
C34_ToolCallDefaults ==
  io.op = "functionCalls" =>
    /\ Len(io.res) = Len(io.arg)
    /\ \A j \in 1..Len(io.arg) :
         /\ io.res[j].args = ParseArgs(io.arg[j].arguments)
         /\ io.res[j].name = (IF io.arg[j].name = <<>> THEN UnknownFunction ELSE io.arg[j].name)
         /\ io.res[j].id = (IF io.arg[j].id = NoId THEN toolCallId(j - 1) ELSE io.arg[j].id)
    /\ \A j, k \in 1..Len(io.arg) :
         (j # k /\ io.arg[j].id = NoId /\ io.arg[k].id = NoId) => io.res[j].id # io.res[k].id

\* ---------------------------------------------------------------------
\* C35: with a non-empty History the messages a request builds before
\* optimization are the translation of the curated history followed by the
\* translation of the request's contents, nothing of the request being
\* appended when its last message repeats the last message of the history in
\* role and content; so after n text exchanges the next request carries
\* 2n+1 messages in conversation order.
Built == fac.pc \notin {"idle", "compress"}

HistoryThenRequest(h, contents) ==
  LET fromHistory == convertToOpenAIMessages(extractCuratedHistory(h))
      request == convertToOpenAIMessages(contents)
      repeats == /\ Len(fromHistory) > 0
                 /\ Len(request) > 0
                 /\ fromHistory[Len(fromHistory)].role = request[Len(request)].role
                 /\ fromHistory[Len(fromHistory)].content = request[Len(request)].content
  IN IF repeats THEN fromHistory ELSE fromHistory \o request

\* user and assistant messages in turn, the request's user message last
InConversationOrder(messages) ==
  \A i \in 1..Len(messages) :
     messages[i].role = IF (Len(messages) - i) % 2 = 0 THEN "user" ELSE "assistant"

\* the first half of C35, which holds of every request
C35_HistoryThenRequest ==
  (Built /\ Len(fac.built) > 0)
    => fac.originalMessages = HistoryThenRequest(fac.built, fac.contents)

C35_RepeatWitness ==
  /\ Built
  /\ fac.built = <<U1, ME>>
  /\ fac.contents = <<U1>>
  /\ Len(fac.originalMessages) = 1

C35_MessagesBuilt ==
  /\ C35_HistoryThenRequest
  /\ (Built /\ fac.textExchanges # NoExchanges /\ fac.compression # "info")
       => /\ Len(fac.originalMessages) = 2 * fac.textExchanges + 1
          /\ InConversationOrder(fac.originalMessages)

\* the second request of a conversation whose first exchange was recorded
C35_SecondRequest ==
  /\ Built
  /\ fac.textExchanges = 1
  /\ Len(fac.originalMessages) = 3
  /\ InConversationOrder(fac.originalMessages)

\* ---------------------------------------------------------------------
\* C36: with two requests in flight on one conversation object, each
\* receiving a non-empty text response, the recordHistory calls can end with
\* a raw History that does not alternate user/model.
BothRecorded ==
  /\ io.op = "pair"
  /\ \A i \in 1..2 : io.reqs[i].pc = "done" /\ Len(io.reqs[i].parts) > 0

\* History after the recordHistory call of the request r
RecordedBy(h, r) ==
  RecordedHistory(h, userInputOf(r.contents), <<Turn("model", r.parts)>>, <<>>)

\* the Histories the two calls can leave, in either order
RecordingOrders ==
  {RecordedBy(RecordedBy(io.initial, io.reqs[1]), io.reqs[2]),
   RecordedBy(RecordedBy(io.initial, io.reqs[2]), io.reqs[1])}

\* as stated: some order of the two calls leaves two adjacent turns of one role
C36_AsStated ==
  BothRecorded => \E h \in RecordingOrders : ~Alternates(h)

\* the user turn and the model turn of the request r
ExchangeOf(r) == <<userInputOf(r.contents), Turn("model", r.parts)>>

\* C36, amended: each recordHistory call appends its user turn and its model
\* turn in one step, so the raw History alternates user/model at every
\* moment, and with both responses recorded it is the initial History
\* followed by the two exchanges in the order their responses were recorded.
C36_ExchangesStayTogether ==
  /\ io.op = "pair" => Alternates(history)
  /\ BothRecorded =>
       /\ history \in RecordingOrders
       /\ history \in {io.initial \o ExchangeOf(io.reqs[1]) \o ExchangeOf(io.reqs[2]),
                        io.initial \o ExchangeOf(io.reqs[2]) \o ExchangeOf(io.reqs[1])}

\* both streamed, the request sent first recorded last
C36_Witness ==
  /\ BothRecorded
  /\ io.sent = <<1, 2>>
  /\ io.reqs[1].stream /\ io.reqs[2].stream
  /\ io.reqs[1].contents = <<U1>> /\ io.reqs[2].contents = <<U2>>
  /\ Len(io.reqs[1].parts) = 2
  /\ history = io.initial \o ExchangeOf(io.reqs[2]) \o ExchangeOf(io.reqs[1])

\* ---------------------------------------------------------------------
\* C37: whenever tryCompress returns null, History is what it was before
\* the call, also when it is the token count of the new history that cannot
\* be determined.
C37_NullLeavesHistory ==
  (tc.pc = "done" /\ tc.res = "null") => history = tc.before

\* the null returns taken before the summary leave History as it was
C37_EarlyNullLeavesHistory ==
  (tc.pc = "done" /\ tc.res = "null" /\ ~tc.replaced) => history = tc.before

\* ---------------------------------------------------------------------
\* C38: whenever compression runs on a non-empty curated history at least
\* one turn lies before the final cut index, so a compression, forced and
\* repeated or not, never leaves History with more turns than the curated
\* history had before it plus one.
CompressionRuns == tc.pc \in {"summary", "recount", "done"} /\ tc.gen = 1

C38_AsStated ==
  CompressionRuns =>
    /\ tc.cut >= 1
    /\ tc.replaced => Len(history) <= Len(tc.cur) + 1

\* the first turn alone holds the share of the serialized length to summarize
\* and is neither a model turn nor a function response
FirstTurnReaches(cur, fraction) ==
  LET total == SumLen([i \in 1..Len(cur) |-> JsonLen(cur[i])], Len(cur))
  IN /\ JsonLen(cur[1]) * 10 >= total * fraction
     /\ cur[1].role # "model"
     /\ ~isFunctionResponse(cur[1])

\* C38, amended: at least one turn lies before the final cut index unless
\* the first turn alone reaches the share to summarize and is neither a model
\* turn nor a function response, and then nothing is summarized; a
\* compression leaves History with the two synthetic turns and the turns from
\* the cut index on, so with at most the curated history's turns plus two,
\* and plus one when the summarized portion is not empty.
C38_CutAndGrowth ==
  CompressionRuns =>
    /\ Len(tc.cur) > 0
    /\ tc.cut = 0 <=> FirstTurnReaches(tc.cur, tc.fraction)
    /\ tc.replaced =>
         /\ Len(history) = 2 + Len(tc.cur) - tc.cut
         /\ Len(history) <= Len(tc.cur) + 2
         /\ tc.cut >= 1 => Len(history) <= Len(tc.cur) + 1

\* a forced compression of a History of one user turn: nothing is summarized
\* and History has two turns more than before
C38_Witness ==
  /\ CompressionRuns
  /\ tc.force
  /\ tc.replaced
  /\ tc.cut = 0
  /\ tc.before = <<U1>>
  /\ Len(history) = 3

\* ---------------------------------------------------------------------
\* C39: for a streamed response of text deltas d1..dn (n >= 2) consumed to
\* its end, the model turn recorded in History translates, for the next
\* request, to an assistant message whose content is d1 d2 ... dn as it was
\* streamed, apart from leading and trailing whitespace.
RECURSIVE Streamed(_)
Streamed(parts) ==
  IF Len(parts) = 0 THEN <<>> ELSE Head(parts).text \o Streamed(Tail(parts))

C39_StreamedTurnRoundTrips ==
  (/\ fac.pc = "done"
   /\ fac.stream
   /\ fac.outcome = "consumed"
   /\ fac.records = 1
   /\ fac.yielded >= 2
   /\ \A j \in 1..Len(fac.parts) : fac.parts[j].k = "text")
    => LET wire == convertToOpenAIMessages(<<history[Len(history)]>>)
       IN /\ history[Len(history)].role = "model"
          /\ Len(wire) = 1
          /\ wire[1].role = "assistant"
          /\ wire[1].content = Trim(Streamed(fac.parts))

\* ---------------------------------------------------------------------
\* C40: a turn appended to History, by addHistory or by another request's
\* recordHistory, while a tryCompress call is suspended awaiting the token
\* count or the summary is still in History after the compression completes.
Holds(h, turn) == \E i \in 1..Len(h) : h[i] = turn

CompressionEnded == tc.pc = "done" /\ io.op = "concurrent"

C40_AsStated ==
  CompressionEnded => \A j \in 1..Len(io.added) : Holds(history, io.added[j])

\* C40, amended: a turn appended while a tryCompress call is suspended
\* awaiting the first token count or the summary is
\* still in History after the call completes exactly when the call ends
\* without replacing History (nothing done before the summary, or an error):
\* History is then the History of the call's start followed by the appended
\* turns; when the compression replaces History, History is the two
\* synthetic turns and the tail of the curated history taken at the call's
\* start, and every turn appended meanwhile is lost.
C40_LostWhenReplaced ==
  io.op = "concurrent" =>
    /\ (Suspended \/ (tc.pc = "done" /\ ~tc.replaced))
         => history = tc.before \o io.added
    /\ (tc.pc \in {"recount", "done"} /\ tc.replaced)
         => /\ SubSeq(history, 3, Len(history)) = historyToKeep(tc.cur, tc.cut)
            /\ \A j \in 1..Len(io.added) : ~Holds(history, io.added[j])

\* a compression that completed with the counts after another request's
\* exchange was recorded during its await
C40_Witness ==
  /\ CompressionEnded
  /\ tc.res = "info"
  /\ io.added = <<U2, MT2>>
  /\ ~Holds(history, U2)
  /\ ~Holds(history, MT2)

====
